---- MODULE Spec2Model ----
(***************************************************************************)
(* Verification model of the peerio-icebear synchronisation core:          *)
(*   - Keg (src/src/models/kegs/keg.js): save protocol, hydration,         *)
(*     anti-tamper check;                                                  *)
(*   - FileStoreBase (src/src/models/files/file-store-base.js): paged      *)
(*     initial load and incremental update driven by the update digest,    *)
(*     with FileStore.upload (src/src/models/files/file-store.folders.js); *)
(*   - FileStore's migration of legacy files and its two task queues;      *)
(*   - FileStoreFolders (same file): the folder tree of a store, synced    *)
(*     with the folder tree keg, for the main store and a volume's store;  *)
(*   - the name filter of the stores, the descriptor versions and the      *)
(*     cache of chat files of FileStore;                                   *)
(*   - MyChats (src/src/models/chats/my-chats.ts) and ChatStore            *)
(*     (src/src/models/chats/chat-store.js);                               *)
(*   - FileStreamAbstract (src/src/models/files/file-stream-abstract.ts).  *)
(* Update ids are strings of decimal digits, compared as JavaScript        *)
(* compares strings.                                                       *)
(* Each component has its own specification over the shared variables.     *)
(***************************************************************************)
EXTENDS Integers, Sequences, FiniteSets, Bags, TLC

\* ------------------------------------------------------------------ bounds
\* saves are not started once the local version reached MaxVersion
MaxVersion == 3
\* at most MaxInFlight socket requests of one keg are outstanding
MaxInFlight == 2
\* the server issues at most MaxWrites update ids for the file collection
MaxWrites == 3
\* the chat store makes at most MaxChatObjects Chat objects
MaxChatObjects == 3
\* a buffer or chunk of a file stream has at most MaxChunk bytes, and no
\* read or write is started once the position reached MaxBytes
MaxChunk == 2
MaxBytes == 6
\* a page of the initial load holds at most PageCount records: the page size
\* of _loadPage scaled down, so that a load takes several pages
PageCount == 2
\* an update fetch returns at most ListCount records
ListCount == 50
\* the count of an update fetch scaled down, so that more records can have
\* changed than one fetch returns
UpdateCount == 1

\* ------------------------------------------------------------------ values
\* null / undefined
None == "none"
KegIds == {"k1", "k2"}
Types == {"read_receipt", "file"}
\* the modelled keg is a ReadReceipt: type 'read_receipt', encrypted
KegType == "read_receipt"
Keys == {"dbKey", "otherKey"}
\* the key a keg encrypts and decrypts with: this.overrideKey || this.db.key
KegKey == "dbKey"
Owners == {"alice"}
\* values of the unencrypted props object; "p0" is the constructor's {}
EmptyProps == "p0"
PropsValues == {"p1"}
\* values of the payload field (ReadReceipt.chatPosition); 0 before any load
ChatPositions == {1, 2, 3}
\* the value the modelled server records carry
RecordPositions == {1}
\* collectionVersion values the server answers a keg write with
CollectionVersions == {1}

VARIABLES
    keg,          \* the Keg object: id, type, plaintext, version, collectionVersion, owner, chatPosition, props
    creates,      \* number of /auth/kegs/create requests in flight
    updates,      \* /auth/kegs/update requests in flight (a bag of update objects)
    allocated,    \* keg ids the server has allocated so far
    sentVersions, \* history: version numbers sent in update requests
    lastSave,     \* history: how the last two settled update requests ended, oldest first
    inbox,        \* <<>> or <<raw record about to be passed to loadFromKeg>>
    loadResult    \* outcome of the last loadFromKeg call, None while a record is waiting

kegVars == <<keg, creates, updates, allocated, sentVersions, lastSave, inbox, loadResult>>

VARIABLES
    srv,            \* server: keg id -> [state, fileId, cv] of the file keg
    writes,         \* server: number of update ids issued so far
    digestMax,      \* tracker: digest.maxUpdateId of (collection, 'file')
    handlerPending, \* a call of onFileDigestUpdate is waiting (notification, debounce or setTimeout)
    files,          \* store.files, newest first
    loading,        \* store.loading
    loaded,         \* store.loaded
    pagePending,    \* a page request of _loadPage is in flight
    cursor,         \* position the next page starts from (number of list positions passed)
    updating,       \* store.updating: an update fetch is in flight
    maxIdAtStart,   \* the maxId captured when the cycle in flight started
    maxUpdateId,    \* store.maxUpdateId
    knownUpdateId,  \* store.knownUpdateId
    seenMax,        \* history: highest collectionVersion of any record received so far
    lastRemoved,    \* history: keg ids whose File the last update response took out
    paused,         \* store.paused
    fetches,        \* number of update fetches (_getFiles requests) in flight
    served,         \* the server has answered the request in flight (page or update fetch)
    response        \* the records of that answer, <<>> while none is on its way

storeVars == <<srv, writes, digestMax, handlerPending, files, loading, loaded, pagePending, cursor,
               updating, maxIdAtStart, maxUpdateId, knownUpdateId, seenMax, lastRemoved,
               paused, fetches, served, response>>

VARIABLES
    resumed,        \* history: the call of onFileDigestUpdate queued by resume() has not run yet
    loops,          \* number of calls of loadAllFiles that are inside the page loop
    liveAtStart,    \* history: while loading, the live file kegs at the call of loadAllFiles
    removals,       \* keg ids of the /auth/kegs/delete requests in flight
    disposed,       \* history: <<>>, or <<digest.maxUpdateId at the call of dispose()>>
    mig,            \* the File passed to onFileAdded and the migration task queued for it
    hooked          \* history: the fileIds of the Files onFileAdded was called with by the store

appVars == <<resumed, loops, liveAtStart, removals, disposed, mig, hooked>>

VARIABLES
    migrationQueue, \* FileStore.migrationQueue: the tasks waiting and the tasks running
    uploadQueue     \* FileStore.uploadQueue: the tasks waiting and the tasks running

queueVars == <<migrationQueue, uploadQueue>>

VARIABLES
    treeKeg,        \* the folder tree keg on the server: folder id -> parent and name
    localKeg,       \* per store, the folders of its FileFoldersKeg object
    saving,         \* a save() of the main store is in flight, with the tree of its keg
    folders,        \* the FileFolder objects: parent object and name
    fstate,         \* the File of the folder model: store, folderId, folder, reactions
    fstore,         \* per FileStoreFolders: made, folderResolveMap, files observer
    call            \* history: the last operation on a folder store, and how it ended

folderVars == <<treeKeg, localKeg, saving, folders, fstate, fstore, call>>

VARIABLES
    flt,            \* the files a store filters: name, show, selected; the last call
    myChats,        \* MyChats: the favorites and hidden lists; the last call
    desc,           \* FileStore.updateDescriptors: versions, digest, fetch in flight
    chatFileMap,    \* FileStore.chatFileMap for one chat and fileId; the files offered
    chatStore,      \* ChatStore: chats, chatMap, activeChat
    stream          \* a FileStreamAbstract: mode, pos, the bytes moved, the last call

coreVars == <<kegVars, storeVars, appVars, queueVars, folderVars>>
extVars == <<flt, myChats, desc, chatFileMap, chatStore, stream>>

\* ------------------------------------------------------------------ payloads
\* What secret.encryptString / JSON.stringify produce, kept structured:
\* kind "none" is a missing payload, "plain" an unencrypted JSON string,
\* "enc" a ciphertext under `key` whose plaintext carries _sys = {kegId, type}.
NoPayload == [kind |-> "none", sysKegId |-> None, sysType |-> None, chatPosition |-> 0, key |-> None]

PlainPayloads == { [kind |-> "plain", sysKegId |-> None, sysType |-> None, chatPosition |-> c, key |-> None] :
                     c \in RecordPositions }

EncPayloads ==
    { [kind |-> "enc", sysKegId |-> i, sysType |-> t, chatPosition |-> c, key |-> KegKey] :
        i \in KegIds, t \in Types, c \in RecordPositions }
    \cup { [kind |-> "enc", sysKegId |-> "k1", sysType |-> KegType, chatPosition |-> 1, key |-> "otherKey"] }

\* raw keg records a server may return for a get / list request
Records == { [kegId |-> i, version |-> v, owner |-> o, collectionVersion |-> cv, payload |-> p, props |-> pr] :
               i \in KegIds, v \in {2}, o \in Owners, cv \in {2},
               p \in {NoPayload} \cup PlainPayloads \cup EncPayloads, pr \in PropsValues }

\* ------------------------------------------------------------------ Keg
\* constructor(id, type, db, plaintext) with id = null
NewKeg(type, plaintext) ==
    [id |-> None, type |-> type, plaintext |-> plaintext, version |-> 0,
     collectionVersion |-> 0, owner |-> None, chatPosition |-> 0, props |-> EmptyProps]

\* serializeKegPayload, the _sys header, JSON.stringify and encryptString
SerializePayload(k) ==
    IF k.plaintext
    THEN [kind |-> "plain", sysKegId |-> None, sysType |-> None, chatPosition |-> k.chatPosition, key |-> None]
    ELSE [kind |-> "enc", sysKegId |-> k.id, sysType |-> k.type, chatPosition |-> k.chatPosition, key |-> KegKey]

\* mutant of UpdateRequest: the version is sent without being stored (this.version + 1)
UpdateRequestNoStore(k) ==
    [keg |-> k,
     req |-> [kegId |-> k.id, type |-> k.type, payload |-> SerializePayload(k),
              props |-> k.props, version |-> k.version + 1, base |-> k.version]]

\* _internalSave up to socket.send: the update object, and the keg after ++this.version.
\* `base` is history only: the version the keg had when _internalSave was entered.
UpdateRequest(k) ==
    [keg |-> [k EXCEPT !.version = k.version + 1],
     req |-> [kegId |-> k.id, type |-> k.type, payload |-> SerializePayload(k),
              props |-> k.props, version |-> k.version + 1, base |-> k.version]]

\* _internalSave: prepare the payload, bump the version, send the update
InternalSave(k) ==
    LET u == UpdateRequest(k) IN
    /\ keg' = u.keg
    /\ updates' = updates (+) SetToBag({u.req})
    /\ sentVersions' = sentVersions \cup {u.req.version}

InFlight == creates + BagCardinality(updates)

\* saveToServer(): with an id, straight to _internalSave; without, send create first
SaveToServer ==
    /\ InFlight < MaxInFlight
    /\ keg.version < MaxVersion
    /\ IF keg.id # None
       THEN InternalSave(keg) /\ UNCHANGED creates
       ELSE creates' = creates + 1 /\ UNCHANGED <<keg, updates, sentVersions>>
    /\ UNCHANGED <<allocated, lastSave, inbox, loadResult>>
    /\ UNCHANGED storeVars
    /\ UNCHANGED appVars
    /\ UNCHANGED queueVars
    /\ UNCHANGED folderVars
    /\ UNCHANGED extVars

\* the create response: resp = {kegId, version, collectionVersion}, then _internalSave
CreateOk ==
    /\ creates > 0
    /\ \E kid \in KegIds \ allocated, cv \in CollectionVersions :
          /\ allocated' = allocated \cup {kid}
          /\ InternalSave([keg EXCEPT !.id = kid, !.version = 1, !.collectionVersion = cv])
    /\ creates' = creates - 1
    /\ UNCHANGED <<lastSave, inbox, loadResult>>
    /\ UNCHANGED storeVars
    /\ UNCHANGED appVars
    /\ UNCHANGED queueVars
    /\ UNCHANGED folderVars
    /\ UNCHANGED extVars

\* the create request fails: the promise rejects, nothing was assigned
CreateFail ==
    /\ creates > 0
    /\ creates' = creates - 1
    /\ UNCHANGED <<keg, updates, allocated, sentVersions, lastSave, inbox, loadResult>>
    /\ UNCHANGED storeVars
    /\ UNCHANGED appVars
    /\ UNCHANGED queueVars
    /\ UNCHANGED folderVars
    /\ UNCHANGED extVars

\* history: the outcome of a settled update request, after the one before it
Settled(outcome) == IF lastSave = <<>> THEN <<outcome>> ELSE <<lastSave[Len(lastSave)], outcome>>

\* the update response: this.collectionVersion = resp.collectionVersion
UpdateOk ==
    /\ UNCHANGED storeVars
    /\ UNCHANGED appVars
    /\ UNCHANGED queueVars
    /\ UNCHANGED folderVars
    /\ UNCHANGED extVars
    /\ \E req \in BagToSet(updates), cv \in CollectionVersions :
           /\ keg' = [keg EXCEPT !.collectionVersion = cv]
           /\ lastSave' = Settled("ok")
           /\ updates' = updates (-) SetToBag({req})
           /\ UNCHANGED <<creates, allocated, sentVersions, inbox, loadResult>>

\* the update request fails: the promise rejects; the version stays incremented
UpdateFail ==
    /\ UNCHANGED storeVars
    /\ UNCHANGED appVars
    /\ UNCHANGED queueVars
    /\ UNCHANGED folderVars
    /\ UNCHANGED extVars
    /\ \E req \in BagToSet(updates) :
           /\ updates' = updates (-) SetToBag({req})
           /\ lastSave' = Settled("failed")
           /\ UNCHANGED <<keg, creates, allocated, sentVersions, inbox, loadResult>>

\* the application writes the payload field (ReadReceipt.chatPosition) before a save
SetChatPosition ==
    /\ \E c \in ChatPositions : c # keg.chatPosition /\ keg' = [keg EXCEPT !.chatPosition = c]
    /\ UNCHANGED <<creates, updates, allocated, sentVersions, lastSave, inbox, loadResult>>
    /\ UNCHANGED storeVars
    /\ UNCHANGED appVars
    /\ UNCHANGED queueVars
    /\ UNCHANGED folderVars
    /\ UNCHANGED extVars

\* loadFromKeg's first check: the record belongs to another keg
IdentityMismatch(k, rec) == k.id # None /\ k.id # rec.kegId

\* mutant of DetectTampering: only the keg id of the header is compared
DetectTamperingIdOnly(k, payload) == payload.sysKegId # k.id

\* detectTampering(payload): TRUE when it throws AntiTamperError
DetectTampering(k, payload) ==
    \/ payload.sysKegId # k.id
    \/ payload.sysType # k.type

\* secret.decryptString / JSON.parse succeed on this payload for this keg
Readable(k, payload) ==
    IF k.plaintext THEN payload.kind = "plain"
    ELSE payload.kind = "enc" /\ payload.key = KegKey

\* mutant of LoadFromKeg: the identity check at the top is missing
LoadFromKegNoIdCheck(k, rec) ==
    LET k1 == [k EXCEPT !.id = rec.kegId, !.version = rec.version, !.owner = rec.owner,
                        !.collectionVersion = rec.collectionVersion] IN
    IF rec.payload.kind = "none" THEN [keg |-> k1, result |-> "empty"]
    ELSE IF ~Readable(k, rec.payload) THEN [keg |-> k1, result |-> "decryptError"]
    ELSE IF ~k.plaintext /\ DetectTampering(k1, rec.payload) THEN [keg |-> k1, result |-> "tamper"]
    ELSE [keg |-> [k1 EXCEPT !.chatPosition = rec.payload.chatPosition, !.props = rec.props],
          result |-> "ok"]

\* loadFromKeg(keg): the keg afterwards and how the call ended
\* ("ok" / "empty": returned this; anything else: threw)
LoadFromKeg(k, rec) ==
    IF IdentityMismatch(k, rec) THEN [keg |-> k, result |-> "identityMismatch"]
    ELSE
    LET k1 == [k EXCEPT !.id = rec.kegId, !.version = rec.version, !.owner = rec.owner,
                        !.collectionVersion = rec.collectionVersion] IN
    IF rec.payload.kind = "none" THEN [keg |-> k1, result |-> "empty"]
    ELSE IF ~Readable(k, rec.payload) THEN [keg |-> k1, result |-> "decryptError"]
    ELSE IF ~k.plaintext /\ DetectTampering(k1, rec.payload) THEN [keg |-> k1, result |-> "tamper"]
    ELSE [keg |-> [k1 EXCEPT !.chatPosition = rec.payload.chatPosition, !.props = rec.props],
          result |-> "ok"]

\* a raw record arrives (the response of load(), or a record of a list response)
Receive ==
    /\ inbox = <<>>
    /\ \E rec \in Records : inbox' = <<rec>>
    /\ loadResult' = None
    /\ UNCHANGED <<keg, creates, updates, allocated, sentVersions, lastSave>>
    /\ UNCHANGED storeVars
    /\ UNCHANGED appVars
    /\ UNCHANGED queueVars
    /\ UNCHANGED folderVars
    /\ UNCHANGED extVars

\* the record is passed to loadFromKeg
Hydrate ==
    /\ inbox # <<>>
    /\ LET r == LoadFromKeg(keg, inbox[1]) IN
         /\ keg' = r.keg
         /\ loadResult' = r.result
    /\ inbox' = <<>>
    /\ UNCHANGED <<creates, updates, allocated, sentVersions, lastSave>>
    /\ UNCHANGED storeVars
    /\ UNCHANGED appVars
    /\ UNCHANGED queueVars
    /\ UNCHANGED folderVars
    /\ UNCHANGED extVars

KegInit ==
    /\ keg = NewKeg(KegType, FALSE)
    /\ creates = 0
    /\ updates = EmptyBag
    /\ allocated = {}
    /\ sentVersions = {}
    /\ lastSave = <<>>
    /\ inbox = <<>>
    /\ loadResult = None

\* ------------------------------------------------------------------ FileStoreBase
\* the server's file kegs of one collection, in the order a list request returns them
FileKegs == <<"k1", "k2", "k3">>
FileKegIds == {FileKegs[i] : i \in DOMAIN FileKegs}
\* the fileIds a keg may be created with: its uploader's own, and for k2 also
\* the one of k1 (a duplicate, as old file systems left some)
CreateFileIds == [k \in FileKegIds |->
                    CASE k = "k1" -> {"f1"} [] k = "k2" -> {"f2", "f1"} [] OTHER -> {"f3"}]
\* the fileId generated for a file uploaded through this store
UploadFileId == "fu"

\* the update id the server stamps on the i-th write of the collection; the
\* ids grow, not always by one, and gain a digit on the way
VersionAt(i) == IF i <= 3 THEN <<3, 7, 10>>[i] ELSE i + 7

\* a non-negative number as the server sends it: its decimal digits
RECURSIVE ToStr(_)
ToStr(n) == IF n < 10 THEN <<n>> ELSE Append(ToStr(n \div 10), n % 10)

\* the number a string of digits stands for; '' counts as 0
RECURSIVE Num(_)
Num(str) == IF str = <<>> THEN 0 ELSE 10 * Num(SubSeq(str, 1, Len(str) - 1)) + str[Len(str)]

\* JavaScript's a < b on two strings: by code units, a proper prefix first
RECURSIVE JsLess(_, _)
JsLess(a, b) ==
    IF b = <<>> THEN FALSE
    ELSE IF a = <<>> THEN TRUE
    ELSE IF a[1] # b[1] THEN a[1] < b[1]
    ELSE JsLess(Tail(a), Tail(b))

\* JavaScript's a > b on two strings
JsGreater(a, b) == JsLess(b, a)

\* health: "ok", or how hydration of the keg fails: "bad" (loadFromKeg is falsy)
\* or "undecryptable" (falsy, and the record has decryptionError, type 'file'
\* and no format)
AbsentKeg == [state |-> "absent", fileId |-> None, cv |-> 0, health |-> "ok"]

\* the raw record a list request returns for keg k
RecordOf(k) ==
    [kegId |-> k, fileId |-> srv[k].fileId, collectionVersion |-> ToStr(srv[k].cv),
     deleted |-> srv[k].state = "deleted", hidden |-> srv[k].state = "hidden",
     health |-> srv[k].health]

\* the records of the kegs at the given list positions, in list order
RECURSIVE RecordsAt(_)
RecordsAt(positions) ==
    IF positions = <<>> THEN <<>>
    ELSE <<RecordOf(FileKegs[positions[1]])>> \o RecordsAt(Tail(positions))

\* list-ext with filter {deleted: false, hidden: false}: the positions after
\* `from` of at most `count` kegs that are neither deleted nor hidden
RECURSIVE PagePositions(_, _)
PagePositions(from, count) ==
    IF from >= Len(FileKegs) \/ count = 0 THEN <<>>
    ELSE IF srv[FileKegs[from + 1]].state = "live"
         THEN <<from + 1>> \o PagePositions(from + 1, count - 1)
         ELSE PagePositions(from + 1, count)

\* list-ext with filter {minCollectionVersion: min} (min = 0: no filter): the
\* positions after `from` of at most `count` kegs changed after update id min
RECURSIVE UpdatePositions(_, _, _)
UpdatePositions(from, count, min) ==
    IF from >= Len(FileKegs) \/ count = 0 THEN <<>>
    ELSE IF srv[FileKegs[from + 1]].state # "absent" /\ srv[FileKegs[from + 1]].cv > min
         THEN <<from + 1>> \o UpdatePositions(from + 1, count - 1, min)
         ELSE UpdatePositions(from + 1, count, min)

\* ---- server side
NextVersion == VersionAt(writes + 1)

\* the list position of keg k
PositionOf(k) == CHOOSE i \in 1..Len(FileKegs) : FileKegs[i] = k

\* the server allocates keg ids in list order: k is the next id to be given out
NextKeg(k) ==
    /\ srv[k].state = "absent"
    /\ \A j \in 1..(PositionOf(k) - 1) : srv[FileKegs[j]].state # "absent"

\* another client creates and saves a file keg
SrvCreate ==
    /\ writes < MaxWrites
    /\ \E k \in FileKegIds :
          /\ NextKeg(k)
          /\ \E f \in CreateFileIds[k] :
                srv' = [srv EXCEPT ![k] = [state |-> "live", cv |-> NextVersion, fileId |-> f,
                                          health |-> "ok"]]
    /\ writes' = writes + 1
    /\ UNCHANGED <<digestMax, handlerPending, files, loading, loaded, pagePending, cursor, updating,
                   maxIdAtStart, maxUpdateId, knownUpdateId, seenMax, lastRemoved>>
    /\ UNCHANGED kegVars
    /\ UNCHANGED appVars
    /\ UNCHANGED <<paused, fetches, served, response>>
    /\ UNCHANGED queueVars
    /\ UNCHANGED folderVars
    /\ UNCHANGED extVars

\* a file keg is saved again, hidden, or deleted (a deleted keg keeps no props)
SrvChange ==
    /\ writes < MaxWrites
    /\ \E k \in FileKegIds, to \in {"live", "hidden", "deleted"} :
          /\ srv[k].state \in {"live", "hidden"}
          /\ srv[k].state = "hidden" => to = "deleted"
          /\ srv' = [srv EXCEPT ![k] = [state |-> to, cv |-> NextVersion,
                                        fileId |-> IF to = "deleted" THEN None ELSE srv[k].fileId,
                                        health |-> IF to = "deleted" THEN "ok" ELSE srv[k].health]]
    /\ writes' = writes + 1
    /\ UNCHANGED <<digestMax, handlerPending, files, loading, loaded, pagePending, cursor, updating,
                   maxIdAtStart, maxUpdateId, knownUpdateId, seenMax, lastRemoved>>
    /\ UNCHANGED kegVars
    /\ UNCHANGED appVars
    /\ UNCHANGED <<paused, fetches, served, response>>
    /\ UNCHANGED queueVars
    /\ UNCHANGED folderVars
    /\ UNCHANGED extVars

\* the highest update id issued, as the digest reports it ('' before the first write)
SrvMaxUpdateId == IF writes = 0 THEN <<>> ELSE ToStr(VersionAt(writes))

\* the tracker receives the digest and notifies the store, whose handler is debounced
DigestNotify ==
    /\ digestMax # SrvMaxUpdateId
    /\ digestMax' = SrvMaxUpdateId
    /\ handlerPending' = TRUE
    /\ UNCHANGED <<srv, writes, files, loading, loaded, pagePending, cursor, updating, maxIdAtStart,
                   maxUpdateId, knownUpdateId, seenMax, lastRemoved>>
    /\ UNCHANGED kegVars
    /\ UNCHANGED appVars
    /\ UNCHANGED <<paused, fetches, served, response>>
    /\ UNCHANGED queueVars
    /\ UNCHANGED folderVars
    /\ UNCHANGED extVars

\* ---- the store
\* undefined as the result of a lookup among Files
NoFile == [id |-> "undefined", fileId |-> "undefined"]

\* fileMap / fileMapObservable: the File in the list under this fileId
GetById(list, fileId) ==
    IF \E i \in DOMAIN list : list[i].fileId = fileId /\ fileId # None
    THEN list[CHOOSE i \in DOMAIN list : list[i].fileId = fileId] ELSE NoFile

GetByKegId(list, kegId) ==
    IF \E i \in DOMAIN list : list[i].id = kegId
    THEN list[CHOOSE i \in DOMAIN list : list[i].id = kegId /\ \A j \in 1..(i - 1) : list[j].id # kegId]
    ELSE NoFile

\* files.remove(file): the list without the first occurrence of the file
RemoveFile(list, file) ==
    IF \E i \in DOMAIN list : list[i] = file
    THEN LET i == CHOOSE n \in DOMAIN list : list[n] = file /\ \A j \in 1..(n - 1) : list[j] # file
         IN SubSeq(list, 1, i - 1) \o SubSeq(list, i + 1, Len(list))
    ELSE list

\* the list with the first occurrence of `file` replaced by `hydrated`
ReplaceFile(list, file, hydrated) ==
    LET i == CHOOSE n \in DOMAIN list : list[n] = file /\ \A j \in 1..(n - 1) : list[j] # file
    IN [list EXCEPT ![i] = hydrated]

\* new File(kegDb, store)
NewFile == [id |-> None, fileId |-> None]

\* file.loadFromKeg(keg): FALSE when the record belongs to another keg,
\* otherwise the File takes the record's identity and fileId
FileLoadFromKeg(file, rec) ==
    IF (file.id # None /\ file.id # rec.kegId) \/ rec.health # "ok"
    THEN [ok |-> FALSE, file |-> file]
    ELSE [ok |-> TRUE, file |-> [id |-> rec.kegId, fileId |-> rec.fileId]]

\* mutant of LoadPageRecord: the check of this.fileMap[file.fileId] is missing
LoadPageRecordNoDuplicateCheck(st, rec) ==
    LET st1 == [st EXCEPT
                  !.maxUpdateId = IF JsGreater(rec.collectionVersion, st.maxUpdateId)
                                  THEN rec.collectionVersion ELSE st.maxUpdateId,
                  !.knownUpdateId = IF JsGreater(rec.collectionVersion, st.knownUpdateId)
                                    THEN rec.collectionVersion ELSE st.knownUpdateId]
        r == FileLoadFromKeg(NewFile, rec)
    IN IF rec.deleted \/ rec.hidden THEN st
       ELSE IF ~r.ok
            THEN IF rec.health = "undecryptable"
                 THEN [st1 EXCEPT !.removing = st1.removing \cup {rec.kegId}]
                 ELSE st1
       ELSE IF r.file.fileId = None THEN st1
       ELSE [st1 EXCEPT !.files = <<r.file>> \o st1.files]

\* one pass of the loop of _loadPage, over record rec; st carries files,
\* maxUpdateId, knownUpdateId, removing (the keg ids file.remove() is called for)
LoadPageRecord(st, rec) ==
    LET st1 == [st EXCEPT
                  !.maxUpdateId = IF JsGreater(rec.collectionVersion, st.maxUpdateId)
                                  THEN rec.collectionVersion ELSE st.maxUpdateId,
                  !.knownUpdateId = IF JsGreater(rec.collectionVersion, st.knownUpdateId)
                                    THEN rec.collectionVersion ELSE st.knownUpdateId]
        r == FileLoadFromKeg(NewFile, rec)
    IN IF rec.deleted \/ rec.hidden THEN st
       ELSE IF ~r.ok
            THEN IF rec.health = "undecryptable"
                 THEN [st1 EXCEPT !.removing = st1.removing \cup {rec.kegId}]
                 ELSE st1
       ELSE IF r.file.fileId = None THEN st1
       ELSE IF GetById(st1.files, r.file.fileId) # NoFile THEN st1
       ELSE [st1 EXCEPT !.files = <<r.file>> \o st1.files]

\* the loop of _loadPage over the page's records, in order (the state after
\* each record is bound as a value before the next record is taken)
RECURSIVE LoadPage(_, _)
LoadPage(st, recs) ==
    IF recs = <<>> THEN st
    ELSE CHOOSE out \in {LoadPage(next, Tail(recs)) :
                             next \in {LoadPageRecord(st, recs[1])}} : TRUE

\* the File an update record refers to: by fileId, else by keg id
ExistingByFileIdOnly(list, rec) == GetById(list, rec.fileId)

Existing(list, rec) ==
    IF GetById(list, rec.fileId) # NoFile THEN GetById(list, rec.fileId)
    ELSE GetByKegId(list, rec.kegId)

\* one pass of the loop of updateFiles, over record rec; st carries files,
\* knownUpdateId, removed (the keg ids of the Files taken out)
ApplyUpdate(st, rec) ==
    LET st1 == [st EXCEPT
                  !.knownUpdateId = IF JsGreater(rec.collectionVersion, st.knownUpdateId)
                                    THEN rec.collectionVersion ELSE st.knownUpdateId]
        existing == Existing(st1.files, rec)
        r == FileLoadFromKeg(IF existing # NoFile THEN existing ELSE NewFile, rec)
    IN IF rec.fileId = None /\ ~rec.deleted THEN st1
       ELSE IF rec.deleted \/ rec.hidden
            THEN IF existing # NoFile
                 THEN [st1 EXCEPT !.files = RemoveFile(st1.files, existing),
                                  !.removed = st1.removed \cup {rec.kegId}]
                 ELSE st1
       ELSE IF ~r.ok THEN st1
       ELSE IF existing # NoFile
            THEN [st1 EXCEPT !.files = ReplaceFile(st1.files, existing, r.file)]
       ELSE [st1 EXCEPT !.files = <<r.file>> \o st1.files]

\* the loop of updateFiles over the response's records, in order
RECURSIVE ApplyUpdates(_, _)
ApplyUpdates(st, recs) ==
    IF recs = <<>> THEN st
    ELSE CHOOSE out \in {ApplyUpdates(next, Tail(recs)) :
                             next \in {ApplyUpdate(st, recs[1])}} : TRUE

\* the highest collectionVersion among the records, and m
RECURSIVE MaxVersionOf(_, _)
MaxVersionOf(recs, m) ==
    IF recs = <<>> THEN m
    ELSE MaxVersionOf(Tail(recs), IF Num(recs[1].collectionVersion) > m
                                  THEN Num(recs[1].collectionVersion) ELSE m)

\* the method class FileStore defines for a File that was added
DefinedHook == "onFileAdded"
\* the method _loadPage calls, when the store has it, with a File it inserted
LoadPageHook == "onInitialFileAdded"
\* updateFiles calls no method with a File it inserted
UpdateFilesHook == None

\* the fileIds of the Files in list `after` that list `before` does not have
AddedFileIds(before, after) ==
    {after[i].fileId : i \in DOMAIN after} \ {before[i].fileId : i \in DOMAIN before}

\* the Files a handler hands to FileStore.onFileAdded when it calls `hook`
\* for each File it inserted
HookCalls(hook, before, after) ==
    IF hook = DefinedHook THEN AddedFileIds(before, after) ELSE {}

\* the live file kegs on the server with their fileIds
LiveRecords ==
    {[kegId |-> k, fileId |-> srv[k].fileId] : k \in {x \in FileKegIds : srv[x].state = "live"}}

\* mutant of LastPage: the loop of loadAllFiles is left after the first page
LastPageAlways(resp) == TRUE

\* the condition that ends the do/while of loadAllFiles
LastPage(resp) == Len(resp) = 0

\* mutant of LoadAllFilesProceeds: the check of this.loading is missing
LoadAllFilesProceedsNoLoadingCheck == ~loaded

\* loadAllFiles: TRUE when the call goes on to the page loop
LoadAllFilesProceeds == ~loading /\ ~loaded

\* loadAllFiles up to the first page request
LoadAllFiles ==
    /\ LoadAllFilesProceeds
    /\ loading' = TRUE
    /\ loops' = loops + 1
    /\ liveAtStart' = LiveRecords
    /\ pagePending' = TRUE
    /\ cursor' = 0
    /\ UNCHANGED <<srv, writes, digestMax, handlerPending, files, loaded, updating, maxIdAtStart,
                   maxUpdateId, knownUpdateId, seenMax, lastRemoved>>
    /\ UNCHANGED kegVars
    /\ UNCHANGED <<resumed, removals, disposed, hooked, mig>>
    /\ UNCHANGED <<paused, fetches, served, response>>
    /\ UNCHANGED queueVars
    /\ UNCHANGED folderVars
    /\ UNCHANGED extVars

\* the records the server answers the page request in flight with
PageRecords == RecordsAt(PagePositions(cursor, PageCount))

\* the server answers the page request of _loadPage
LoadPageServe ==
    /\ pagePending /\ ~served
    /\ served' = TRUE
    /\ response' = PageRecords
    /\ UNCHANGED <<srv, writes, digestMax, handlerPending, files, loading, loaded, pagePending,
                   cursor, updating, maxIdAtStart, maxUpdateId, knownUpdateId, seenMax,
                   lastRemoved, paused, fetches>>
    /\ UNCHANGED kegVars
    /\ UNCHANGED appVars
    /\ UNCHANGED queueVars
    /\ UNCHANGED folderVars
    /\ UNCHANGED extVars

\* a page arrives: _loadPage's handler, then the loop of loadAllFiles asks for
\* the next page, or after an empty page runs _finishLoading
LoadPageResponse ==
    /\ pagePending /\ served
    /\ served' = FALSE
    /\ response' = <<>>
    /\ LET st == LoadPage([files |-> files, maxUpdateId |-> maxUpdateId,
                           knownUpdateId |-> knownUpdateId, removing |-> {}], response)
       IN /\ files' = st.files
          /\ hooked' = hooked \cup (IF ~loaded THEN HookCalls(LoadPageHook, files, st.files)
                                   ELSE {})
          /\ removals' = removals \cup st.removing
          /\ maxUpdateId' = st.maxUpdateId
          /\ knownUpdateId' = st.knownUpdateId
          /\ seenMax' = MaxVersionOf(response, seenMax)
          /\ IF ~LastPage(response)
             THEN /\ cursor' = IF Len(response) > 0
                                THEN PositionOf(response[Len(response)].kegId) ELSE cursor
                  /\ UNCHANGED <<pagePending, loading, loaded, handlerPending, loops,
                                 liveAtStart>>
             ELSE /\ pagePending' = FALSE
                  /\ loading' = FALSE
                  /\ loaded' = TRUE
                  /\ handlerPending' = TRUE
                  /\ cursor' = 0
                  /\ loops' = loops - 1
                  /\ liveAtStart' = {}
    /\ UNCHANGED <<srv, writes, digestMax, updating, maxIdAtStart, lastRemoved>>
    /\ UNCHANGED kegVars
    /\ UNCHANGED <<resumed, disposed, mig>>
    /\ UNCHANGED <<paused, fetches>>
    /\ UNCHANGED queueVars
    /\ UNCHANGED folderVars
    /\ UNCHANGED extVars

\* mutant of UpdateFilesProceeds: the check of this.updating is missing
UpdateFilesProceedsNoUpdatingGuard(max) == loaded /\ knownUpdateId # max

\* updateFiles up to the request: TRUE when the call goes on to fetch
UpdateFilesProceeds(max) == loaded /\ ~updating /\ knownUpdateId # max

\* onFileDigestUpdate, with its call of updateFiles
OnFileDigestUpdate ==
    /\ handlerPending
    /\ handlerPending' = FALSE
    /\ IF paused \/ (loaded /\ digestMax = maxUpdateId)
       THEN UNCHANGED <<maxUpdateId, updating, maxIdAtStart, fetches>>
       ELSE /\ maxUpdateId' = digestMax
            /\ IF UpdateFilesProceeds(digestMax)
               THEN updating' = TRUE /\ maxIdAtStart' = digestMax /\ fetches' = fetches + 1
               ELSE UNCHANGED <<updating, maxIdAtStart, fetches>>
    /\ lastRemoved' = {}
    /\ UNCHANGED <<srv, writes, digestMax, files, loading, loaded, pagePending, cursor,
                   knownUpdateId, seenMax, paused, served, response>>
    /\ UNCHANGED kegVars
    /\ resumed' = FALSE
    /\ UNCHANGED <<loops, liveAtStart, removals, disposed, hooked, mig>>
    /\ UNCHANGED queueVars
    /\ UNCHANGED folderVars
    /\ UNCHANGED extVars

\* the records the server answers an update fetch with when it answers now
UpdateRecords == RecordsAt(UpdatePositions(0, ListCount, Num(knownUpdateId)))

\* the server answers the update fetch in flight
UpdateFilesServe ==
    /\ fetches > 0
    /\ ~served
    /\ served' = TRUE
    /\ response' = UpdateRecords
    /\ UNCHANGED <<srv, writes, digestMax, handlerPending, files, loading, loaded, pagePending,
                   cursor, updating, maxIdAtStart, maxUpdateId, knownUpdateId, seenMax,
                   lastRemoved, paused, fetches>>
    /\ UNCHANGED kegVars
    /\ UNCHANGED appVars
    /\ UNCHANGED queueVars
    /\ UNCHANGED folderVars
    /\ UNCHANGED extVars

\* the update response arrives: the handler of updateFiles
UpdateFilesResponse ==
    /\ fetches > 0
    /\ served
    /\ fetches' = fetches - 1
    /\ served' = FALSE
    /\ response' = <<>>
    /\ LET st == ApplyUpdates([files |-> files, knownUpdateId |-> knownUpdateId, removed |-> {}],
                              response)
       IN /\ files' = st.files
          /\ hooked' = hooked \cup HookCalls(UpdateFilesHook, files, st.files)
          /\ lastRemoved' = st.removed
          /\ knownUpdateId' = IF JsLess(st.knownUpdateId, maxIdAtStart)
                              THEN maxIdAtStart ELSE st.knownUpdateId
          /\ seenMax' = MaxVersionOf(response, seenMax)
    /\ updating' = FALSE
    /\ maxIdAtStart' = <<>>
    /\ handlerPending' = TRUE
    /\ UNCHANGED <<srv, writes, digestMax, loading, loaded, pagePending, cursor, maxUpdateId,
                   paused>>
    /\ UNCHANGED kegVars
    /\ UNCHANGED <<resumed, loops, liveAtStart, removals, disposed, mig>>
    /\ UNCHANGED queueVars
    /\ UNCHANGED folderVars
    /\ UNCHANGED extVars

\* the File of the upload task that is running, NoFile when none is
UploadingFile == GetByKegId(files, None)

\* upload(): the queued task generates a fileId nobody uses yet and puts the
\* File, which has no keg id before its first save, into files
Upload ==
    /\ UploadingFile = NoFile
    /\ \A i \in DOMAIN files : files[i].fileId # UploadFileId
    /\ \A k \in FileKegIds : srv[k].fileId # UploadFileId
    /\ files' = <<[id |-> None, fileId |-> UploadFileId]>> \o files
    /\ UNCHANGED <<srv, writes, digestMax, handlerPending, loading, loaded, pagePending, cursor,
                   updating, maxIdAtStart, maxUpdateId, knownUpdateId, seenMax, lastRemoved>>
    /\ UNCHANGED kegVars
    /\ UNCHANGED appVars
    /\ UNCHANGED <<paused, fetches, served, response>>
    /\ UNCHANGED queueVars
    /\ UNCHANGED folderVars
    /\ UNCHANGED extVars

\* keg.upload() saves the File's keg: the server creates it under a free keg id
UploadSaved ==
    /\ UploadingFile # NoFile
    /\ writes < MaxWrites
    /\ \E k \in FileKegIds :
          /\ NextKeg(k)
          /\ srv' = [srv EXCEPT ![k] = [state |-> "live", cv |-> NextVersion,
                                        fileId |-> UploadingFile.fileId, health |-> "ok"]]
          /\ files' = ReplaceFile(files, UploadingFile, [UploadingFile EXCEPT !.id = k])
    /\ writes' = writes + 1
    /\ UNCHANGED <<digestMax, handlerPending, loading, loaded, pagePending, cursor, updating,
                   maxIdAtStart, maxUpdateId, knownUpdateId, seenMax, lastRemoved>>
    /\ UNCHANGED kegVars
    /\ UNCHANGED appVars
    /\ UNCHANGED <<paused, fetches, served, response>>
    /\ UNCHANGED queueVars
    /\ UNCHANGED folderVars
    /\ UNCHANGED extVars

\* the upload fails or is cancelled: keg.deleted takes the File out of files
UploadRemoved ==
    /\ UploadingFile # NoFile
    /\ files' = RemoveFile(files, UploadingFile)
    /\ UNCHANGED <<srv, writes, digestMax, handlerPending, loading, loaded, pagePending, cursor,
                   updating, maxIdAtStart, maxUpdateId, knownUpdateId, seenMax, lastRemoved>>
    /\ UNCHANGED kegVars
    /\ UNCHANGED appVars
    /\ UNCHANGED <<paused, fetches, served, response>>
    /\ UNCHANGED queueVars
    /\ UNCHANGED folderVars
    /\ UNCHANGED extVars

\* ---- TaskQueue (helpers/task-queue): tasks start in the order they were
\* added, at most `parallelism` of them run at a time
NewTaskQueue == [waiting |-> <<>>, running |-> {}]

\* addTask(task)
AddTask(q, t) == [q EXCEPT !.waiting = Append(@, t)]

\* the queue may start its next task
CanRunTask(q, parallelism) == q.waiting # <<>> /\ Cardinality(q.running) < parallelism

\* the queue starts its next task
RunTask(q) == [waiting |-> Tail(q.waiting), running |-> q.running \cup {Head(q.waiting)}]

\* the promise of a running task settles
TaskComplete(q, t) == [q EXCEPT !.running = @ \ {t}]

\* the tasks in the queue, waiting or running
TasksOf(q) == {q.waiting[i] : i \in DOMAIN q.waiting} \cup q.running

\* uploadQueue = new TaskQueue(1)
UploadParallelism == 1

\* mutant of MigrationParallelism: two migration tasks at a time
TwoAtATime == UploadParallelism + 1

\* migrationQueue = new TaskQueue(1)
MigrationParallelism == 1

\* the tasks of migrationQueue: "m", queued by onFileAdded for the File it was
\* called with, and "d", the re-save updateDescriptors queues for another File;
\* the tasks of uploadQueue: one per call of upload()
MigrationTasks == {"m", "d"}
UploadTasks == {"u1", "u2"}

\* ---- FileStore.onFileAdded: format migration
\* file.latestFormat; a legacy File has format 0
LatestFormat == 1
\* maxRetries of the owner's migration task, and of the passive one
OwnerMaxRetries == 10
FollowerMaxRetries == 2

\* before onFileAdded is called.  phase: "none", "idle" (no task), "queued" (in
\* migrationQueue or waiting for a retry), "descriptor" (createDescriptor in
\* flight), "saving" (saveToServer in flight), "done", "failed" (retries used
\* up); fails: failed attempts so far; saveFails, outcome, legacy (the format
\* was 0 at the call), lastError, created (the calls of createDescriptor that
\* resolved): history
NoMigration ==
    [phase |-> "none", format |-> 0, migrating |-> FALSE, owner |-> FALSE,
     descriptor |-> FALSE, fails |-> 0, saveFails |-> 0, outcome |-> "none",
     legacy |-> FALSE, descriptorKey |-> None, lastError |-> None, created |-> 0]

\* the File as onFileAdded finds it: a File of the latest format has its
\* descriptor key, a legacy File has none
FileAsAdded(format, owner, descriptor) ==
    [NoMigration EXCEPT !.format = format, !.owner = owner, !.descriptor = descriptor,
                        !.legacy = (format = 0),
                        !.descriptorKey = IF format = 0 THEN None ELSE "descriptorKey"]

\* mutant of FollowsOwner: the passive path does not look at props.descriptor
FollowsOwnerAlways(m) == ~m.owner

\* onFileAdded: the branch of a legacy File of another user
FollowsOwner(m) == ~m.owner /\ m.descriptor

\* onFileAdded(keg, file) for a File of the given format, owned by the local
\* user or not, whose keg has props.descriptor or not
OnFileAdded ==
    /\ mig.phase = "none"
    /\ "m" \notin TasksOf(migrationQueue)
    /\ \E format \in {0, LatestFormat}, owner \in BOOLEAN, descriptor \in BOOLEAN :
          LET file == FileAsAdded(format, owner, descriptor)
          IN /\ mig' = IF file.format # 0
                       THEN [file EXCEPT !.phase = "idle"]
                       ELSE IF file.owner
                       THEN [file EXCEPT !.phase = "queued", !.format = LatestFormat,
                                         !.migrating = TRUE, !.descriptorKey = "blobKey"]
                       ELSE IF FollowsOwner(file)
                       THEN [file EXCEPT !.phase = "queued", !.format = LatestFormat,
                                         !.descriptorKey = "blobKey"]
                       ELSE [file EXCEPT !.phase = "idle"]
             /\ migrationQueue' = IF file.format = 0 /\ (file.owner \/ FollowsOwner(file))
                                  THEN AddTask(migrationQueue, "m")
                                  ELSE migrationQueue
    /\ UNCHANGED uploadQueue
    /\ UNCHANGED <<resumed, loops, liveAtStart, removals, disposed, hooked>>
    /\ UNCHANGED storeVars
    /\ UNCHANGED kegVars
    /\ UNCHANGED folderVars
    /\ UNCHANGED extVars

\* updateDescriptors: a descriptor arrives for another legacy File, whose
\* re-save is queued
UpdateDescriptorsAddTask ==
    /\ "d" \notin TasksOf(migrationQueue)
    /\ migrationQueue' = AddTask(migrationQueue, "d")
    /\ UNCHANGED uploadQueue
    /\ UNCHANGED appVars
    /\ UNCHANGED storeVars
    /\ UNCHANGED kegVars
    /\ UNCHANGED folderVars
    /\ UNCHANGED extVars

\* migrationQueue starts its next task
RunMigrationTask ==
    /\ CanRunTask(migrationQueue, MigrationParallelism)
    /\ migrationQueue' = RunTask(migrationQueue)
    /\ UNCHANGED uploadQueue
    /\ UNCHANGED appVars
    /\ UNCHANGED storeVars
    /\ UNCHANGED kegVars
    /\ UNCHANGED folderVars
    /\ UNCHANGED extVars

\* the saveToServer of the task updateDescriptors queued settles
DescriptorSaveSettled ==
    /\ "d" \in migrationQueue.running
    /\ migrationQueue' = TaskComplete(migrationQueue, "d")
    /\ UNCHANGED uploadQueue
    /\ UNCHANGED appVars
    /\ UNCHANGED storeVars
    /\ UNCHANGED kegVars
    /\ UNCHANGED folderVars
    /\ UNCHANGED extVars

\* upload(): the stat of the path is known and the upload task is queued
UploadAddTask ==
    /\ \E u \in UploadTasks :
          /\ u \notin TasksOf(uploadQueue)
          /\ uploadQueue' = AddTask(uploadQueue, u)
    /\ UNCHANGED migrationQueue
    /\ UNCHANGED appVars
    /\ UNCHANGED storeVars
    /\ UNCHANGED kegVars
    /\ UNCHANGED folderVars
    /\ UNCHANGED extVars

\* uploadQueue starts its next task
RunUploadTask ==
    /\ CanRunTask(uploadQueue, UploadParallelism)
    /\ uploadQueue' = RunTask(uploadQueue)
    /\ UNCHANGED migrationQueue
    /\ UNCHANGED appVars
    /\ UNCHANGED storeVars
    /\ UNCHANGED kegVars
    /\ UNCHANGED folderVars
    /\ UNCHANGED extVars

\* keg.upload() of a running upload task settles
UploadTaskSettled ==
    /\ \E u \in uploadQueue.running : uploadQueue' = TaskComplete(uploadQueue, u)
    /\ UNCHANGED migrationQueue
    /\ UNCHANGED appVars
    /\ UNCHANGED storeVars
    /\ UNCHANGED kegVars
    /\ UNCHANGED folderVars
    /\ UNCHANGED extVars

\* the task of onFileAdded is over when its retry loop ended
QueueAfter(m) ==
    IF m.phase \in {"done", "failed"} THEN TaskComplete(migrationQueue, "m") ELSE migrationQueue

\* the running task calls the function passed to the retry helper, the first
\* time or again
MigrationAttempt ==
    /\ mig.phase = "queued"
    /\ "m" \in migrationQueue.running
    /\ mig' = [mig EXCEPT !.phase = IF mig.owner /\ ~mig.descriptor
                                    THEN "descriptor" ELSE "saving"]
    /\ UNCHANGED queueVars
    /\ UNCHANGED <<resumed, loops, liveAtStart, removals, disposed, hooked>>
    /\ UNCHANGED storeVars
    /\ UNCHANGED kegVars
    /\ UNCHANGED folderVars
    /\ UNCHANGED extVars

\* mutant of MigrationSaved: migrating is not cleared
MigrationSavedKeepsFlag(m) == [m EXCEPT !.phase = "done", !.outcome = "saved"]

\* the then-handler after file.saveToServer() of the owner's task
MigrationSaved(m) ==
    [m EXCEPT !.migrating = FALSE, !.phase = "done", !.outcome = "saved"]

\* mutant of GaveUp: the format is not reset
GaveUpKeepsFormat(m) ==
    [m EXCEPT !.phase = "failed", !.migrating = FALSE, !.outcome = "gaveUp"]

\* the catch handler of the owner's task, after the retry helper gave up
GaveUp(m) ==
    [m EXCEPT !.phase = "failed", !.format = 0, !.migrating = FALSE, !.outcome = "gaveUp"]

\* the attempt rejects: the retry helper schedules another call unless the
\* retries are used up; then the task's catch handler runs
MigrationRejected(m) ==
    LET max == IF m.owner THEN OwnerMaxRetries ELSE FollowerMaxRetries
    IN IF m.fails + 1 <= max
       THEN [m EXCEPT !.fails = m.fails + 1, !.phase = "queued"]
       ELSE IF m.owner
       THEN GaveUp([m EXCEPT !.fails = m.fails + 1])
       ELSE [m EXCEPT !.fails = m.fails + 1, !.phase = "failed", !.outcome = "gaveUp"]

\* mutant of MigrationFailed: the conflict answer is an error like any other
MigrationFailedNoConflictCase(m, err) == MigrationRejected(m)

\* the catch handler of the owner's attempt, for error err
MigrationFailed(m, err) ==
    IF m.owner /\ err = "malformedRequest"
    THEN [m EXCEPT !.migrating = FALSE, !.phase = "done", !.outcome = "conflict"]
    ELSE MigrationRejected(m)

\* file.createDescriptor() resolves
CreateDescriptorOk ==
    /\ mig.phase = "descriptor"
    /\ mig' = [mig EXCEPT !.phase = "saving", !.created = mig.created + 1]
    /\ UNCHANGED queueVars
    /\ UNCHANGED <<resumed, loops, liveAtStart, removals, disposed, hooked>>
    /\ UNCHANGED storeVars
    /\ UNCHANGED kegVars
    /\ UNCHANGED folderVars
    /\ UNCHANGED extVars

\* file.createDescriptor() rejects
CreateDescriptorFail ==
    /\ mig.phase = "descriptor"
    /\ \E err \in {"malformedRequest", "other"} :
          mig' = MigrationFailed([mig EXCEPT !.lastError = err], err)
    /\ migrationQueue' = QueueAfter(mig')
    /\ UNCHANGED uploadQueue
    /\ UNCHANGED <<resumed, loops, liveAtStart, removals, disposed, hooked>>
    /\ UNCHANGED storeVars
    /\ UNCHANGED kegVars
    /\ UNCHANGED folderVars
    /\ UNCHANGED extVars

\* file.saveToServer() resolves
MigrationSaveOk ==
    /\ mig.phase = "saving"
    /\ mig' = IF mig.owner THEN MigrationSaved(mig)
              ELSE [mig EXCEPT !.phase = "done", !.outcome = "saved"]
    /\ migrationQueue' = QueueAfter(mig')
    /\ UNCHANGED uploadQueue
    /\ UNCHANGED <<resumed, loops, liveAtStart, removals, disposed, hooked>>
    /\ UNCHANGED storeVars
    /\ UNCHANGED kegVars
    /\ UNCHANGED folderVars
    /\ UNCHANGED extVars

\* file.saveToServer() rejects
MigrationSaveFail ==
    /\ mig.phase = "saving"
    /\ \E err \in {"malformedRequest", "other"} :
          mig' = MigrationFailed([mig EXCEPT !.saveFails = mig.saveFails + 1,
                                             !.lastError = err], err)
    /\ migrationQueue' = QueueAfter(mig')
    /\ UNCHANGED uploadQueue
    /\ UNCHANGED <<resumed, loops, liveAtStart, removals, disposed, hooked>>
    /\ UNCHANGED storeVars
    /\ UNCHANGED kegVars
    /\ UNCHANGED folderVars
    /\ UNCHANGED extVars

\* the migration of one File, beside the other work of the two queues
MigrationNext ==
    \/ OnFileAdded
    \/ UpdateDescriptorsAddTask
    \/ RunMigrationTask
    \/ DescriptorSaveSettled
    \/ MigrationAttempt
    \/ CreateDescriptorOk
    \/ CreateDescriptorFail
    \/ MigrationSaveOk
    \/ MigrationSaveFail
    \/ UploadAddTask
    \/ RunUploadTask
    \/ UploadTaskSettled

\* ---- FileStoreFolders: the folder tree of a store
\* the store instances: the main store and the store of one volume
Stores == {"main", "vol"}
FolderIds == {"d1", "d2"}
FolderFileIds == {"f1"}

\* const ROOT_FOLDER = new RootFolder(): one object per module
ROOT_FOLDER == "ROOT_FOLDER"

\* mutant of RootOf: every FileStoreFolders has a root of its own
OwnRootOf(s) == IF s = "main" THEN ROOT_FOLDER ELSE "vol.root"

\* folderStore.root of store s: the constructor takes (fileStore) only and
\* the field is initialized with ROOT_FOLDER
RootOf(s) == ROOT_FOLDER

\* the FileFolder objects: the one store s makes for folder id d is ObjOf[s][d]
ObjOf ==
    [s \in Stores |-> [d \in FolderIds |->
        IF s = "main" THEN (IF d = "d1" THEN "main.d1" ELSE "main.d2")
        ELSE (IF d = "d1" THEN "vol.d1" ELSE "vol.d2")]]
FolderObjs == {ObjOf[s][d] : s \in Stores, d \in FolderIds}
\* folder.folderId
FolderIdOf(o) == CHOOSE d \in FolderIds : \E s \in Stores : ObjOf[s][d] = o

\* folder names: sequences of characters
Names == {<<"D">>, <<"d">>}

\* String.prototype.toLowerCase on the characters in use
LowerChar(c) == IF c = "D" THEN "d" ELSE IF c = "P" THEN "p" ELSE c
ToLowerCase(name) == [i \in DOMAIN name |-> LowerChar(name[i])]

\* a folder id the serialized tree does not have; parent is None, "root" or
\* the folder id of the parent
AbsentFolder == [parent |-> None, name |-> <<>>]
EmptyTree == [d \in FolderIds |-> AbsentFolder]
IdsOf(tree) == {d \in FolderIds : tree[d].parent # None}

\* a FileFolder object that is in no tree; parent is None, a root or an object
NoFolder == [parent |-> None, name |-> <<>>]

\* a File no store has.  life: "new", "in" (in store.files), "removed"; lists:
\* the folders whose files array holds it; folder: file.folder; registered:
\* folderIdReactions has its reaction; leaked: a reaction on its folderId that
\* folderIdReactions no longer refers to is live
NoFolderFile ==
    [life |-> "new", store |-> None, folderId |-> None, folder |-> None, lists |-> {},
     registered |-> FALSE, leaked |-> FALSE]

\* a FileStoreFolders before its first sync(); intercept: this._intercept is set
NewFolderStore(made) == [made |-> made, folderResolveMap |-> {}, intercept |-> FALSE]

\* the last step was none of sync(), createFolder() and the catch of save()
NoCall == [op |-> None, store |-> None, name |-> <<>>, thrown |-> None]

\* the record of the call the last step was: op names the operation, name
\* the name it was given, thrown the error it raised
Called(op, s, name, thrown) == [op |-> op, store |-> s, name |-> name, thrown |-> thrown]

FolderInit ==
    /\ treeKeg = EmptyTree
    /\ localKeg = [s \in Stores |-> EmptyTree]
    /\ saving = FALSE
    /\ folders = [o \in FolderObjs |-> NoFolder]
    /\ fstate = [f \in FolderFileIds |-> NoFolderFile]
    /\ fstore = [s \in Stores |-> NewFolderStore(s = "main")]
    /\ call = NoCall

\* ---- FileFolder (models/files/file-folder)
\* folder.free(file): the file leaves the folder's files
Free(x, o) == [x EXCEPT !.lists = @ \ {o}, !.folder = IF @ = o THEN None ELSE @]

\* folder.add(file, true): the file joins the folder's files
Add(x, o) == [x EXCEPT !.lists = @ \cup {o}, !.folder = o]

\* folder.moveInto(file): detach from the current folder, attach here, and the
\* file stores the identifier of its folder (none for a root)
MoveInto(x, o) ==
    [Add(IF x.folder # None THEN Free(x, x.folder) ELSE x, o)
        EXCEPT !.folderId = IF o \in FolderObjs THEN FolderIdOf(o) ELSE None]

\* getById(id) of store s with folderResolveMap map
GetFolderById(s, map, id) == IF id \in map THEN ObjOf[s][id] ELSE None

\* mutant of AddFileReaction: the file is not freed from its previous folder
AddFileReactionNoFree(x, s, map) ==
    LET folderToResolve == GetFolderById(s, map, x.folderId)
    IN IF x.folder # None /\ x.folder = folderToResolve THEN x
       ELSE IF folderToResolve # None THEN Add(x, folderToResolve)
       ELSE IF x.folder = None THEN Add(x, RootOf(s)) ELSE x

\* the reaction _addFile registers on file.folderId, run for File x of store s
AddFileReaction(x, s, map) ==
    LET folderToResolve == GetFolderById(s, map, x.folderId)
    IN IF x.folder # None /\ x.folder = folderToResolve THEN x
       ELSE IF folderToResolve # None
       THEN Add(IF x.folder # None THEN Free(x, x.folder) ELSE x, folderToResolve)
       ELSE IF x.folder = None THEN Add(x, RootOf(s)) ELSE x

\* file.folderId was assigned: the live reactions on it run
React(x, map) ==
    IF x.registered \/ x.leaked THEN AddFileReaction(x, x.store, map) ELSE x

\* _addFile(file): a reaction is registered over the one folderIdReactions
\* had for the fileId, and runs at once
AddFile(x, s, map) ==
    AddFileReaction([x EXCEPT !.registered = TRUE, !.leaked = x.leaked \/ x.registered], s, map)

\* _removeFile(file)
RemoveFolderFile(x) ==
    [(IF x.folder # None THEN Free(x, x.folder) ELSE x) EXCEPT !.registered = FALSE]

\* folder.freeSelf() for the folders in `torn`, seen from File x: the files
\* of a folder that is torn down move to the root
FreeSelfFile(x, torn, root, map) ==
    IF x.lists \cap torn = {} THEN x
    ELSE React([x EXCEPT !.lists = (@ \ torn) \cup {root}, !.folder = root,
                         !.folderId = None], map)

\* folder.freeSelf() for the folders in `torn`: they leave their parents
FreeSelfFolders(fs, torn) == [o \in FolderObjs |-> IF o \in torn THEN NoFolder ELSE fs[o]]

\* root.deserialize(keg, ...): every folder of the keg's tree is the object
\* folderResolveMap has for its id, or a new one, under the parent the tree
\* gives it
Deserialize(fs, s, tree) ==
    [o \in FolderObjs |->
        IF \E d \in IdsOf(tree) : ObjOf[s][d] = o
        THEN LET d == FolderIdOf(o)
             IN [parent |-> IF tree[d].parent = "root" THEN RootOf(s)
                            ELSE ObjOf[s][tree[d].parent],
                 name |-> tree[d].name]
        ELSE fs[o]]

\* the folder object hangs under the root, at most n levels down
RECURSIVE Attached(_, _, _, _)
Attached(fs, s, o, n) ==
    \/ fs[o].parent = RootOf(s)
    \/ n > 0 /\ fs[o].parent \in FolderObjs /\ Attached(fs, s, fs[o].parent, n - 1)

\* folder.serialize() over root.folders, for the objects of store s
Serialize(fs, s) ==
    [d \in FolderIds |->
        LET o == ObjOf[s][d]
        IN IF ~Attached(fs, s, o, Cardinality(FolderIds)) THEN AbsentFolder
           ELSE [parent |-> IF fs[o].parent = RootOf(s) THEN "root"
                            ELSE FolderIdOf(fs[o].parent),
                 name |-> fs[o].name]]

\* the first loop of sync() over File x of the store
SyncDetach(x, s, map) ==
    IF x.folderId # None
    THEN IF GetFolderById(s, map, x.folderId) # None
         THEN MoveInto(x, GetFolderById(s, map, x.folderId)) ELSE x
    ELSE IF x.folder # None THEN Free(x, x.folder) ELSE x

\* mutant of SyncResolveMap: the ids the new tree lacks are forgotten
SyncResolveMapLatestOnly(map, newMap) == newMap

\* folderResolveMap after sync(): the ids of the new tree are set when
\* missing, no id is deleted
SyncResolveMap(map, newMap) == map \cup newMap

\* the Files in store.files of store s
InStore(x, s) == x.life = "in" /\ x.store = s

\* sync() of store s: the state of the folders, Files and folder store
\* after it, from the tree of its keg
Sync(fs, fl, st, s, tree) ==
    LET map == st.folderResolveMap
        newMap == IdsOf(tree)
        torn == {ObjOf[s][d] : d \in map \ newMap}
        map2 == SyncResolveMap(map, newMap)
        fl1 == [f \in FolderFileIds |->
                  IF InStore(fl[f], s) THEN SyncDetach(fl[f], s, map) ELSE fl[f]]
        fl2 == [f \in FolderFileIds |-> FreeSelfFile(fl1[f], torn, RootOf(s), map)]
        fl3 == [f \in FolderFileIds |->
                  IF InStore(fl2[f], s) THEN AddFile(fl2[f], s, map2) ELSE fl2[f]]
    IN [folders |-> FreeSelfFolders(Deserialize(fs, s, tree), torn),
        fstate |-> fl3,
        fstore |-> [st EXCEPT !.folderResolveMap = map2, !.intercept = TRUE]]

\* the keg of store s was loaded, or updated with another tree of the
\* server: keg.onUpdated
KegUpdated(s) ==
    /\ fstore[s].made
    /\ ~fstore[s].intercept \/ treeKeg # localKeg[s]
    /\ (s = "main" => ~saving)
    /\ localKeg' = [localKeg EXCEPT ![s] = treeKeg]
    /\ LET r == Sync(folders, fstate, fstore[s], s, treeKeg)
       IN /\ folders' = r.folders
          /\ fstate' = r.fstate
          /\ fstore' = [fstore EXCEPT ![s] = r.fstore]
    /\ call' = Called("sync", s, <<>>, None)
    /\ UNCHANGED <<treeKeg, saving>>
    /\ UNCHANGED kegVars
    /\ UNCHANGED storeVars
    /\ UNCHANGED appVars
    /\ UNCHANGED queueVars
    /\ UNCHANGED extVars

\* the children of folder object o
ChildrenOf(fs, o) == {c \in FolderObjs : fs[c].parent = o}

\* the trees in which no two siblings have the same name but for case, and
\* every folder hangs under the root
RECURSIVE UnderRoot(_, _, _)
UnderRoot(tree, d, n) ==
    \/ tree[d].parent = "root"
    \/ n > 0 /\ tree[d].parent \in IdsOf(tree) /\ UnderRoot(tree, tree[d].parent, n - 1)

WellFormedTree(tree) ==
    /\ \A d \in IdsOf(tree) : tree[d].parent # d /\ UnderRoot(tree, d, Cardinality(FolderIds))
    /\ \A d, e \in IdsOf(tree) :
          (d # e /\ tree[d].parent = tree[e].parent)
              => ToLowerCase(tree[d].name) # ToLowerCase(tree[e].name)

Trees ==
    {t \in [FolderIds -> [parent : {None, "root"} \cup FolderIds, name : Names \cup {<<>>}]] :
        /\ \A d \in FolderIds : (t[d].parent = None) <=> (t[d].name = <<>>)
        /\ WellFormedTree(t)}

\* the folder ids some folder store of this client has an object for
KnownIds == UNION {fstore[s].folderResolveMap : s \in Stores}

\* another client of the user saves the folder tree; the folders it made
\* have ids of their own
SrvTreeChange ==
    /\ \E t \in Trees :
          /\ t # treeKeg
          /\ (IdsOf(t) \ IdsOf(treeKeg)) \cap KnownIds = {}
          /\ treeKeg' = t
    /\ call' = NoCall
    /\ UNCHANGED <<localKeg, saving, folders, fstate, fstore>>
    /\ UNCHANGED kegVars
    /\ UNCHANGED storeVars
    /\ UNCHANGED appVars
    /\ UNCHANGED queueVars
    /\ UNCHANGED extVars

\* mutant of FindFolderByName: the names are compared as they are
FindFolderByNameExact(fs, target, name) ==
    {c \in ChildrenOf(fs, target) : fs[c].name = name}

\* target.findFolderByName(name): the children whose normalizedName is the
\* lower-cased name (the call returns the first, or undefined)
FindFolderByName(fs, target, name) ==
    {c \in ChildrenOf(fs, target) : ToLowerCase(fs[c].name) = ToLowerCase(name)}

\* the folders of the main store's tree, the root included
TreeFolders(fs, s) == {RootOf(s)} \cup {ObjOf[s][d] : d \in IdsOf(Serialize(fs, s))}

\* cryptoUtil.getRandomShortIdHex(): an id nobody uses
FreshIds == FolderIds \ (fstore["main"].folderResolveMap \cup IdsOf(treeKeg)
                          \cup IdsOf(localKeg["main"]))

\* createFolder(name, parent) of the main store
CreateFolder ==
    /\ fstore["main"].intercept
    /\ \E name \in Names, target \in TreeFolders(folders, "main") :
          IF FindFolderByName(folders, target, name) # {}
          THEN /\ call' = Called("createFolder", "main", name, "error_folderAlreadyExists")
               /\ UNCHANGED <<folders, fstore>>
          ELSE /\ FreshIds # {}
               /\ LET d == CHOOSE x \in FreshIds : TRUE
                  IN /\ folders' = [folders EXCEPT ![ObjOf["main"][d]] =
                                       [parent |-> target, name |-> name]]
                     /\ fstore' = [fstore EXCEPT !["main"].folderResolveMap = @ \cup {d}]
               /\ call' = Called("createFolder", "main", name, None)
    /\ UNCHANGED <<treeKeg, localKeg, saving, fstate>>
    /\ UNCHANGED kegVars
    /\ UNCHANGED storeVars
    /\ UNCHANGED appVars
    /\ UNCHANGED queueVars
    /\ UNCHANGED extVars

\* the folder objects below o, at most n levels down
RECURSIVE Descendants(_, _, _)
Descendants(fs, o, n) ==
    IF n = 0 THEN {}
    ELSE ChildrenOf(fs, o) \cup UNION {Descendants(fs, c, n - 1) : c \in ChildrenOf(fs, o)}

\* save() up to the request: the handler serializes the tree into the keg
SaveRequest(fs) == Serialize(fs, "main")

\* deleteFolder(folder) of the main store: the folder and the folders below
\* it are torn down, then save()
DeleteFolder ==
    /\ fstore["main"].intercept
    /\ ~saving
    /\ \E o \in TreeFolders(folders, "main") \ {RootOf("main")} :
          LET torn == {o} \cup Descendants(folders, o, Cardinality(FolderIds))
              fs == FreeSelfFolders(folders, torn)
          IN /\ folders' = fs
             /\ fstate' = [f \in FolderFileIds |->
                             FreeSelfFile(fstate[f], torn, RootOf("main"),
                                          fstore["main"].folderResolveMap)]
             /\ localKeg' = [localKeg EXCEPT !["main"] = SaveRequest(fs)]
             /\ saving' = TRUE
             /\ call' = NoCall
    /\ UNCHANGED <<treeKeg, fstore>>
    /\ UNCHANGED kegVars
    /\ UNCHANGED storeVars
    /\ UNCHANGED appVars
    /\ UNCHANGED queueVars
    /\ UNCHANGED extVars

\* bulk.move: target.moveInto(folder) for a folder of the main store
MoveFolder ==
    /\ fstore["main"].intercept
    /\ \E o \in TreeFolders(folders, "main") \ {RootOf("main")},
          target \in TreeFolders(folders, "main") :
          /\ target # o
          /\ target \notin Descendants(folders, o, Cardinality(FolderIds))
          /\ folders[o].parent # target
          /\ folders' = [folders EXCEPT ![o].parent = target]
          /\ call' = NoCall
    /\ UNCHANGED <<treeKeg, localKeg, saving, fstate, fstore>>
    /\ UNCHANGED kegVars
    /\ UNCHANGED storeVars
    /\ UNCHANGED appVars
    /\ UNCHANGED queueVars
    /\ UNCHANGED extVars

\* save() of the main store after folders were created or moved
SaveFolders ==
    /\ fstore["main"].intercept
    /\ ~saving
    /\ SaveRequest(folders) # localKeg["main"]
    /\ localKeg' = [localKeg EXCEPT !["main"] = SaveRequest(folders)]
    /\ saving' = TRUE
    /\ call' = NoCall
    /\ UNCHANGED <<treeKeg, folders, fstate, fstore>>
    /\ UNCHANGED kegVars
    /\ UNCHANGED storeVars
    /\ UNCHANGED appVars
    /\ UNCHANGED queueVars
    /\ UNCHANGED extVars

\* the server takes the tree of the save in flight
SaveOk ==
    /\ saving
    /\ treeKeg' = localKeg["main"]
    /\ saving' = FALSE
    /\ call' = NoCall
    /\ UNCHANGED <<localKeg, folders, fstate, fstore>>
    /\ UNCHANGED kegVars
    /\ UNCHANGED storeVars
    /\ UNCHANGED appVars
    /\ UNCHANGED queueVars
    /\ UNCHANGED extVars

\* mutant of SaveCatch: the rejection of the save is swallowed
SaveCatchIgnores(fs, fl, st, tree) == [folders |-> fs, fstate |-> fl, fstore |-> st]

\* .catch(() => this.sync()) of save()
SaveCatch(fs, fl, st, tree) == Sync(fs, fl, st, "main", tree)

\* the write of the save in flight fails: the keg has the server's state
\* again and the catch handler of save() runs
SaveFail ==
    /\ saving
    /\ saving' = FALSE
    /\ localKeg' = [localKeg EXCEPT !["main"] = treeKeg]
    /\ LET r == SaveCatch(folders, fstate, fstore["main"], treeKeg)
       IN /\ folders' = r.folders
          /\ fstate' = r.fstate
          /\ fstore' = [fstore EXCEPT !["main"] = r.fstore]
    /\ call' = Called("saveFailed", "main", <<>>, "error_savingFileFolders")
    /\ UNCHANGED treeKeg
    /\ UNCHANGED kegVars
    /\ UNCHANGED storeVars
    /\ UNCHANGED appVars
    /\ UNCHANGED queueVars
    /\ UNCHANGED extVars

\* a File enters store.files of store s (loaded, updated or uploaded), its
\* folderId as its keg has it; the observer sync() set up calls _addFile
FileAdded(s) ==
    /\ fstore[s].made
    /\ \E f \in FolderFileIds, fid \in {None} \cup FolderIds :
          /\ fstate[f].life = "new"
          /\ LET x == [NoFolderFile EXCEPT !.life = "in", !.store = s, !.folderId = fid]
             IN fstate' = [fstate EXCEPT ![f] =
                              IF fstore[s].intercept
                              THEN AddFile(x, s, fstore[s].folderResolveMap) ELSE x]
    /\ call' = NoCall
    /\ UNCHANGED <<treeKeg, localKeg, saving, folders, fstore>>
    /\ UNCHANGED kegVars
    /\ UNCHANGED storeVars
    /\ UNCHANGED appVars
    /\ UNCHANGED queueVars
    /\ UNCHANGED extVars

\* a File leaves store.files; the observer calls _removeFile
FileRemoved ==
    /\ \E f \in FolderFileIds :
          /\ fstate[f].life = "in"
          /\ LET x == [fstate[f] EXCEPT !.life = "removed"]
             IN fstate' = [fstate EXCEPT ![f] =
                              IF fstore[x.store].intercept THEN RemoveFolderFile(x) ELSE x]
    /\ call' = NoCall
    /\ UNCHANGED <<treeKeg, localKeg, saving, folders, fstore>>
    /\ UNCHANGED kegVars
    /\ UNCHANGED storeVars
    /\ UNCHANGED appVars
    /\ UNCHANGED queueVars
    /\ UNCHANGED extVars

\* an update of its keg gives a File of a store another folderId
FileFolderIdChanged ==
    /\ \E f \in FolderFileIds, fid \in {None} \cup FolderIds :
          /\ fstate[f].life = "in"
          /\ fid # fstate[f].folderId
          /\ fstate' = [fstate EXCEPT ![f] =
                           React([fstate[f] EXCEPT !.folderId = fid],
                                 fstore[fstate[f].store].folderResolveMap)]
    /\ call' = NoCall
    /\ UNCHANGED <<treeKeg, localKeg, saving, folders, fstore>>
    /\ UNCHANGED kegVars
    /\ UNCHANGED storeVars
    /\ UNCHANGED appVars
    /\ UNCHANGED queueVars
    /\ UNCHANGED extVars

\* bulk.move: target.moveInto(file) for a File of the main store
MoveFile ==
    /\ fstore["main"].intercept
    /\ \E f \in FolderFileIds, target \in TreeFolders(folders, "main") :
          /\ InStore(fstate[f], "main")
          /\ fstate[f].folderId # (IF target \in FolderObjs THEN FolderIdOf(target) ELSE None)
          /\ fstate' = [fstate EXCEPT ![f] =
                           React(MoveInto(fstate[f], target), fstore["main"].folderResolveMap)]
    /\ call' = NoCall
    /\ UNCHANGED <<treeKeg, localKeg, saving, folders, fstore>>
    /\ UNCHANGED kegVars
    /\ UNCHANGED storeVars
    /\ UNCHANGED appVars
    /\ UNCHANGED queueVars
    /\ UNCHANGED extVars

\* Volume.loadMetaPromise: the volume gets its store
VolumeLoadMeta ==
    /\ ~fstore["vol"].made
    /\ fstore' = [fstore EXCEPT !["vol"].made = TRUE]
    /\ call' = NoCall
    /\ UNCHANGED <<treeKeg, localKeg, saving, folders, fstate>>
    /\ UNCHANGED kegVars
    /\ UNCHANGED storeVars
    /\ UNCHANGED appVars
    /\ UNCHANGED queueVars
    /\ UNCHANGED extVars

\* the folder tree of the main store
FoldersNext ==
    \/ SrvTreeChange
    \/ KegUpdated("main")
    \/ CreateFolder
    \/ DeleteFolder
    \/ MoveFolder
    \/ SaveFolders
    \/ SaveOk
    \/ SaveFail
    \/ FileAdded("main")
    \/ FileRemoved
    \/ FileFolderIdChanged
    \/ MoveFile

\* the folder stores of the main store and of a volume
VolumeNext ==
    \/ VolumeLoadMeta
    \/ SrvTreeChange
    \/ \E s \in Stores : KegUpdated(s)
    \/ \E s \in Stores : FileAdded(s)
    \/ FileRemoved
    \/ FileFolderIdChanged

\* the ways a file keg on the server can be malformed: no fileId in its props,
\* or a payload that does not hydrate
Malformed ==
    {[fileId |-> None, health |-> "ok"],
     [fileId |-> "f4", health |-> "bad"],
     [fileId |-> "f4", health |-> "undecryptable"]}

\* a malformed file keg appears in the collection
SrvCreateMalformed ==
    /\ writes < MaxWrites
    /\ \E k \in FileKegIds, m \in Malformed :
          /\ NextKeg(k)
          /\ srv' = [srv EXCEPT ![k] = [state |-> "live", cv |-> NextVersion,
                                        fileId |-> m.fileId, health |-> m.health]]
    /\ writes' = writes + 1
    /\ UNCHANGED <<digestMax, handlerPending, files, loading, loaded, pagePending, cursor, updating,
                   maxIdAtStart, maxUpdateId, knownUpdateId, seenMax, lastRemoved>>
    /\ UNCHANGED kegVars
    /\ UNCHANGED appVars
    /\ UNCHANGED <<paused, fetches, served, response>>
    /\ UNCHANGED queueVars
    /\ UNCHANGED folderVars
    /\ UNCHANGED extVars

\* the server carries out a delete request of the store
SrvRemove ==
    /\ writes < MaxWrites
    /\ \E k \in removals :
          /\ removals' = removals \ {k}
          /\ srv' = [srv EXCEPT ![k] = [state |-> "deleted", cv |-> NextVersion,
                                        fileId |-> None, health |-> "ok"]]
    /\ writes' = writes + 1
    /\ UNCHANGED <<digestMax, handlerPending, files, loading, loaded, pagePending, cursor, updating,
                   maxIdAtStart, maxUpdateId, knownUpdateId, seenMax, lastRemoved>>
    /\ UNCHANGED kegVars
    /\ UNCHANGED <<resumed, loops, liveAtStart, disposed, hooked, mig>>
    /\ UNCHANGED <<paused, fetches, served, response>>
    /\ UNCHANGED queueVars
    /\ UNCHANGED folderVars
    /\ UNCHANGED extVars

StoreInit ==
    /\ srv = [k \in FileKegIds |-> AbsentKeg]
    /\ writes = 0
    /\ digestMax = <<>>
    /\ handlerPending = FALSE
    /\ files = <<>>
    /\ loading = FALSE
    /\ loaded = FALSE
    /\ pagePending = FALSE
    /\ cursor = 0
    /\ updating = FALSE
    /\ maxIdAtStart = <<>>
    /\ maxUpdateId = <<>>
    /\ knownUpdateId = <<>>
    /\ seenMax = 0
    /\ lastRemoved = {}
    /\ paused = FALSE
    /\ fetches = 0
    /\ served = FALSE
    /\ response = <<>>
    /\ resumed = FALSE
    /\ loops = 0
    /\ liveAtStart = {}
    /\ removals = {}
    /\ disposed = <<>>
    /\ mig = NoMigration
    /\ hooked = {}
    /\ migrationQueue = NewTaskQueue
    /\ uploadQueue = NewTaskQueue

StoreNext ==
    \/ SrvCreate
    \/ SrvChange
    \/ DigestNotify
    \/ LoadAllFiles
    \/ LoadPageServe
    \/ LoadPageResponse
    \/ OnFileDigestUpdate
    \/ UpdateFilesServe
    \/ UpdateFilesResponse

\* pause()
Pause ==
    /\ ~paused
    /\ paused' = TRUE
    /\ UNCHANGED <<srv, writes, digestMax, handlerPending, files, loading, loaded, pagePending,
                   cursor, updating, maxIdAtStart, maxUpdateId, knownUpdateId, seenMax,
                   lastRemoved, fetches, served, response>>
    /\ UNCHANGED kegVars
    /\ UNCHANGED appVars
    /\ UNCHANGED queueVars
    /\ UNCHANGED folderVars
    /\ UNCHANGED extVars

\* resume(): nothing unless paused; else the flag is cleared and a call of
\* onFileDigestUpdate is queued with setTimeout
Resume ==
    /\ paused
    /\ paused' = FALSE
    /\ handlerPending' = TRUE
    /\ UNCHANGED <<srv, writes, digestMax, files, loading, loaded, pagePending, cursor, updating,
                   maxIdAtStart, maxUpdateId, knownUpdateId, seenMax, lastRemoved, fetches,
                   served, response>>
    /\ UNCHANGED kegVars
    /\ resumed' = TRUE
    /\ UNCHANGED <<loops, liveAtStart, removals, disposed, hooked, mig>>
    /\ UNCHANGED queueVars
    /\ UNCHANGED folderVars
    /\ UNCHANGED extVars

\* the fileId the uploader of keg k generated for it
OwnFileId ==
    [k \in FileKegIds |-> CASE k = "k1" -> "f1" [] k = "k2" -> "f2" [] OTHER -> "f3"]

\* another client uploads a file: the keg it creates has the uploader's own
\* fileId, which no other keg has
SrvCreateOwn ==
    /\ writes < MaxWrites
    /\ \E k \in FileKegIds :
          /\ NextKeg(k)
          /\ srv' = [srv EXCEPT ![k] = [state |-> "live", cv |-> NextVersion,
                                        fileId |-> OwnFileId[k],
                                        health |-> "ok"]]
    /\ writes' = writes + 1
    /\ UNCHANGED <<digestMax, handlerPending, files, loading, loaded, pagePending, cursor, updating,
                   maxIdAtStart, maxUpdateId, knownUpdateId, seenMax, lastRemoved>>
    /\ UNCHANGED kegVars
    /\ UNCHANGED appVars
    /\ UNCHANGED <<paused, fetches, served, response>>
    /\ UNCHANGED queueVars
    /\ UNCHANGED folderVars
    /\ UNCHANGED extVars

\* the server answers the update fetch with at most UpdateCount records
UpdateFilesServeCount ==
    /\ fetches > 0
    /\ ~served
    /\ served' = TRUE
    /\ response' = RecordsAt(UpdatePositions(0, UpdateCount, Num(knownUpdateId)))
    /\ UNCHANGED <<srv, writes, digestMax, handlerPending, files, loading, loaded, pagePending,
                   cursor, updating, maxIdAtStart, maxUpdateId, knownUpdateId, seenMax,
                   lastRemoved, paused, fetches>>
    /\ UNCHANGED kegVars
    /\ UNCHANGED appVars
    /\ UNCHANGED queueVars
    /\ UNCHANGED folderVars
    /\ UNCHANGED extVars

\* the store with update fetches of the scaled-down count
UpdateCountNext ==
    \/ SrvCreateOwn
    \/ SrvChange
    \/ DigestNotify
    \/ LoadAllFiles
    \/ LoadPageServe
    \/ LoadPageResponse
    \/ OnFileDigestUpdate
    \/ UpdateFilesServeCount
    \/ UpdateFilesResponse

\* the store with an application that pauses and resumes it
PauseNext ==
    \/ StoreNext
    \/ Pause
    \/ Resume

\* dispose(): the store is taken out of FileStoreBase.instances, nothing else
Dispose ==
    /\ disposed = <<>>
    /\ disposed' = <<digestMax>>
    /\ UNCHANGED <<resumed, loops, liveAtStart, removals, mig, hooked>>
    /\ UNCHANGED storeVars
    /\ UNCHANGED kegVars
    /\ UNCHANGED queueVars
    /\ UNCHANGED folderVars
    /\ UNCHANGED extVars

\* the store, disposed of at any time
DisposeNext ==
    \/ StoreNext
    \/ Dispose

\* the store on a server that also holds malformed file kegs
MalformedNext ==
    \/ StoreNext
    \/ SrvCreateMalformed
    \/ SrvRemove

\* loadFromKeg of class Keg, reached through file.loadFromKeg(keg) in the loop
\* of updateFiles, throws: the File found by fileId is of another keg, or the
\* payload cannot be decrypted, parsed or verified
LoadFromKegThrows(st, rec) ==
    LET existing == Existing(st.files, rec)
        file == IF existing # NoFile THEN existing ELSE NewFile
    IN /\ ~(rec.fileId = None /\ ~rec.deleted)
       /\ ~(rec.deleted \/ rec.hidden)
       /\ (file.id # None /\ file.id # rec.kegId) \/ rec.health # "ok"

\* the loop of updateFiles up to the first record whose hydration throws;
\* knownUpdateId is raised before the record is hydrated
RECURSIVE ApplyUntilThrow(_, _)
ApplyUntilThrow(st, recs) ==
    IF recs = <<>> THEN [st |-> st, thrown |-> FALSE]
    ELSE IF LoadFromKegThrows(st, recs[1])
         THEN [st |-> [st EXCEPT
                         !.knownUpdateId = IF JsGreater(recs[1].collectionVersion, st.knownUpdateId)
                                           THEN recs[1].collectionVersion
                                           ELSE st.knownUpdateId],
               thrown |-> TRUE]
    ELSE ApplyUntilThrow(ApplyUpdate(st, recs[1]), Tail(recs))

\* the handler of the update response when hydrating a record throws: the
\* loop is left at that record and nothing after the loop runs
UpdateFilesResponseThrows ==
    /\ fetches > 0
    /\ served
    /\ LET out == ApplyUntilThrow([files |-> files, knownUpdateId |-> knownUpdateId,
                                   removed |-> {}], response)
       IN /\ out.thrown
          /\ files' = out.st.files
          /\ lastRemoved' = out.st.removed
          /\ knownUpdateId' = out.st.knownUpdateId
    /\ fetches' = fetches - 1
    /\ served' = FALSE
    /\ response' = <<>>
    /\ UNCHANGED <<srv, writes, digestMax, handlerPending, loading, loaded, pagePending, cursor,
                   updating, maxIdAtStart, maxUpdateId, seenMax, paused>>
    /\ UNCHANGED kegVars
    /\ UNCHANGED appVars
    /\ UNCHANGED queueVars
    /\ UNCHANGED folderVars
    /\ UNCHANGED extVars

\* the store with malformed kegs, the handler of a response completing or
\* left where a record throws
UpdateThrowsNext ==
    \/ MalformedNext
    \/ UpdateFilesResponseThrows

\* the store together with uploads running through it
UploadNext ==
    \/ StoreNext
    \/ Upload
    \/ UploadSaved
    \/ UploadRemoved

\* ------------------------------------------------------------------ specifications
\* ---- FileStoreBase.filterByName / clearFilter
\* the Files in memory: "m1" is in the files of the main store, "v1" in the
\* files of a volume's store, which FileStoreBase.instances holds
FilterStores == {"main", "vol"}
FilterFileIds == {"m1", "v1"}
FilesOf(s) == IF s = "main" THEN {"m1"} ELSE {"v1"}

\* get allFiles() of store s: the main store adds the files of the instances
AllFiles(s) == IF s = "main" THEN FilesOf("main") \cup FilesOf("vol") ELSE FilesOf(s)

\* file names and queries: sequences of characters
FilterNames == {<<"D", "p">>, <<"d">>, <<"p", ".">>}
Queries == {<<>>, <<"d">>, <<"P">>, <<"d", "P">>, <<".">>}

\* the upper case of a character: Canonicalize of a RegExp with flag i
UpperChar(c) == IF c = "d" THEN "D" ELSE IF c = "p" THEN "P" ELSE c

\* mutant of EscapeRegExp: the query is the pattern as it is, "." matches
\* any character
NoEscape(query) ==
    [i \in DOMAIN query |-> IF query[i] = "." THEN [any |-> TRUE, ch |-> "."]
                            ELSE [any |-> FALSE, ch |-> query[i]]]

\* _.escapeRegExp(query) read as a pattern: every character stands for itself
EscapeRegExp(query) == [i \in DOMAIN query |-> [any |-> FALSE, ch |-> query[i]]]

\* new RegExp(pattern, 'i').test(name)
RegExpTest(pattern, name) ==
    \E off \in 0..Len(name) :
       /\ off + Len(pattern) <= Len(name)
       /\ \A i \in DOMAIN pattern :
             pattern[i].any \/ UpperChar(pattern[i].ch) = UpperChar(name[off + i])

\* mutant of FilterFile: selected is cleared whatever the test says
FilterFileDeselects(x, pattern) ==
    [x EXCEPT !.show = RegExpTest(pattern, x.name), !.selected = FALSE]

\* the body of the loop of filterByName for File x
FilterFile(x, pattern) ==
    LET show == RegExpTest(pattern, x.name)
    IN [x EXCEPT !.show = show, !.selected = IF show THEN @ ELSE FALSE]

NoFilterCall == [op |-> None, store |-> None, query |-> <<>>, before |-> <<>>, chained |-> FALSE]

\* the names the Files have at first; a new File has show = true and
\* selected = false
FirstName(f) == IF f = "m1" THEN <<"D", "p">> ELSE <<"d">>

FilterInit ==
    flt = [files |-> [f \in FilterFileIds |->
                        [name |-> FirstName(f), show |-> TRUE, selected |-> FALSE]],
           call |-> NoFilterCall]

\* a File gets another name
RenameFile ==
    /\ \E f \in FilterFileIds, name \in FilterNames :
          /\ name # flt.files[f].name
          /\ flt' = [files |-> [flt.files EXCEPT ![f].name = name], call |-> NoFilterCall]
    /\ UNCHANGED <<coreVars, myChats, desc, chatFileMap, chatStore, stream>>

\* filterByName(query) of store s
FilterByName(s, query) ==
    /\ flt' = [files |-> [f \in FilterFileIds |->
                            IF f \in AllFiles(s)
                            THEN FilterFile(flt.files[f], EscapeRegExp(query))
                            ELSE flt.files[f]],
               call |-> [op |-> "filterByName", store |-> s, query |-> query,
                         before |-> flt.files, chained |-> FALSE]]
    /\ UNCHANGED <<coreVars, myChats, desc, chatFileMap, chatStore, stream>>

\* the Files clearFilter() of store s reaches: its own, and for the main
\* store those of every instance through store.clearFilter()
ClearedFiles(s) ==
    FilesOf(s) \cup (IF s = "main" THEN UNION {FilesOf(t) : t \in FilterStores \ {"main"}} ELSE {})

\* clearFilter() of store s
ClearFilter(s) ==
    LET chained == /\ flt.call.op = "filterByName"
                   /\ flt.call.query = <<>>
                   /\ flt.call.store = s
    IN /\ flt' = [files |-> [f \in FilterFileIds |->
                               IF f \in ClearedFiles(s)
                               THEN [flt.files[f] EXCEPT !.show = TRUE]
                               ELSE flt.files[f]],
                  call |-> [op |-> "clearFilter", store |-> s, query |-> <<>>,
                            before |-> IF chained THEN flt.call.before ELSE flt.files,
                            chained |-> chained]]
       /\ UNCHANGED <<coreVars, myChats, desc, chatFileMap, chatStore, stream>>

\* the user selects or deselects a File
SetSelected ==
    /\ \E f \in FilterFileIds :
          flt' = [files |-> [flt.files EXCEPT ![f].selected = ~@], call |-> NoFilterCall]
    /\ UNCHANGED <<coreVars, myChats, desc, chatFileMap, chatStore, stream>>

FilterNext ==
    \/ \E s \in FilterStores, query \in Queries : FilterByName(s, query)
    \/ \E s \in FilterStores : ClearFilter(s)
    \/ SetSelected
    \/ RenameFile

\* ---- MyChats (models/chats/my-chats.ts)
ChatIds == {"c1", "c2"}
MaxListLen == 2

\* the lists a payload of the my_chats keg can hold
ChatLists == UNION {[1..n -> ChatIds] : n \in 0..MaxListLen}

\* array.indexOf(value) >= 0
Has(array, value) == \E i \in DOMAIN array : array[i] = value

\* _add(array, value): the array after the call and the value returned
ListAdd(array, value) ==
    IF Has(array, value) THEN [array |-> array, ret |-> FALSE]
    ELSE [array |-> Append(array, value), ret |-> TRUE]

\* array.splice(ind, 1)
Splice(array, ind) ==
    [i \in 1..(Len(array) - 1) |-> IF i < ind THEN array[i] ELSE array[i + 1]]

\* _remove(array, value): the first occurrence is taken out
ListRemove(array, value) ==
    IF Has(array, value)
    THEN [array |-> Splice(array, CHOOSE i \in DOMAIN array :
                                     /\ array[i] = value
                                     /\ \A j \in 1..(i - 1) : array[j] # value),
          ret |-> TRUE]
    ELSE [array |-> array, ret |-> FALSE]

\* mutant of RemovesOther: the other list is cleaned whatever _add returned
RemovesOtherAlways(ret) == TRUE

\* addFavorite / addHidden: `if (ret)` the id leaves the other list
RemovesOther(ret) == ret

NoChatsCall == [op |-> None, chatId |-> None, ret |-> FALSE]

MyChatsInit ==
    myChats = [favorites |-> <<>>, hiddenChats |-> <<>>, call |-> NoChatsCall]

\* deserializeKegPayload(payload): the lists are those of the payload
DeserializeKegPayload ==
    /\ \E fav \in ChatLists, hid \in ChatLists :
          myChats' = [favorites |-> fav, hiddenChats |-> hid, call |-> NoChatsCall]
    /\ UNCHANGED <<coreVars, flt, desc, chatFileMap, chatStore, stream>>

AddFavorite(chatId) ==
    /\ LET a == ListAdd(myChats.favorites, chatId)
       IN myChats' = [favorites |-> a.array,
                      hiddenChats |-> IF RemovesOther(a.ret)
                                      THEN ListRemove(myChats.hiddenChats, chatId).array
                                      ELSE myChats.hiddenChats,
                      call |-> [op |-> "addFavorite", chatId |-> chatId, ret |-> a.ret]]
    /\ UNCHANGED <<coreVars, flt, desc, chatFileMap, chatStore, stream>>

RemoveFavorite(chatId) ==
    /\ LET r == ListRemove(myChats.favorites, chatId)
       IN myChats' = [myChats EXCEPT !.favorites = r.array,
                         !.call = [op |-> "removeFavorite", chatId |-> chatId, ret |-> r.ret]]
    /\ UNCHANGED <<coreVars, flt, desc, chatFileMap, chatStore, stream>>

AddHidden(chatId) ==
    /\ LET a == ListAdd(myChats.hiddenChats, chatId)
       IN myChats' = [favorites |-> IF RemovesOther(a.ret)
                                    THEN ListRemove(myChats.favorites, chatId).array
                                    ELSE myChats.favorites,
                      hiddenChats |-> a.array,
                      call |-> [op |-> "addHidden", chatId |-> chatId, ret |-> a.ret]]
    /\ UNCHANGED <<coreVars, flt, desc, chatFileMap, chatStore, stream>>

RemoveHidden(chatId) ==
    /\ LET r == ListRemove(myChats.hiddenChats, chatId)
       IN myChats' = [myChats EXCEPT !.hiddenChats = r.array,
                         !.call = [op |-> "removeHidden", chatId |-> chatId, ret |-> r.ret]]
    /\ UNCHANGED <<coreVars, flt, desc, chatFileMap, chatStore, stream>>

\* the four calls on the lists as constructed
MyChatsCalls ==
    \/ \E c \in ChatIds : AddFavorite(c)
    \/ \E c \in ChatIds : RemoveFavorite(c)
    \/ \E c \in ChatIds : AddHidden(c)
    \/ \E c \in ChatIds : RemoveHidden(c)

MyChatsNext ==
    \/ DeserializeKegPayload
    \/ MyChatsCalls

\* ---- FileStore.updateDescriptors: the descriptors of the files
\* desc holds: writes (descriptor update ids the server issued), cvIn (the
\* collection version of the descriptor of the one File the store has, 0 when
\* it has none), dMax / dKnown (maxUpdateId / knownUpdateId of
\* tracker.fileDescriptorDigest), known (knownDescriptorVersion), persisted
\* (the 'knownDescriptorVersion' record of descriptorsCache), subscribed,
\* pending (a call of the debounced updateDescriptors is due), fetching (the
\* '/auth/file/ids/fetch' requests in flight), handlers (the response
\* handlers that have started and not finished).  Update ids are strings.
NoRecord == [has |-> FALSE, value |-> <<>>]

DescriptorInit ==
    desc = [writes |-> 0, cvIn |-> 0, dMax |-> <<>>, dKnown |-> <<>>, known |-> <<>>,
            persisted |-> NoRecord, subscribed |-> FALSE, pending |-> FALSE,
            fetching |-> <<>>, handlers |-> <<>>]

\* JavaScript's a >= b on two strings
JsGreaterEq(a, b) == ~JsLess(a, b)

\* seq without its i-th element
Without(seq, i) == SubSeq(seq, 1, i - 1) \o SubSeq(seq, i + 1, Len(seq))

\* a client changes a descriptor: that of the File the store has, or that of
\* a file out of the store's scope
SrvDescriptorWrite ==
    /\ desc.writes < MaxWrites
    /\ \E inScope \in BOOLEAN :
          desc' = [desc EXCEPT !.writes = desc.writes + 1,
                               !.cvIn = IF inScope THEN VersionAt(desc.writes + 1)
                                        ELSE desc.cvIn]
    /\ UNCHANGED <<coreVars, flt, myChats, chatFileMap, chatStore, stream>>

\* the tracker receives the descriptor digest; the handler subscribed in
\* onFinishLoading asks for an update unless the digest is known
DescriptorDigestNotify ==
    /\ desc.writes > 0
    /\ desc.dMax # ToStr(VersionAt(desc.writes))
    /\ LET max == ToStr(VersionAt(desc.writes))
       IN desc' = [desc EXCEPT !.dMax = max,
                               !.pending = desc.pending
                                           \/ (desc.subscribed /\ ~JsGreaterEq(desc.dKnown, max))]
    /\ UNCHANGED <<coreVars, flt, myChats, chatFileMap, chatStore, stream>>

\* onFinishLoading: the persisted version is read, the store subscribes to
\* the descriptor digest and calls updateDescriptors
OnFinishLoading ==
    /\ ~desc.subscribed
    /\ desc' = [desc EXCEPT !.known = IF desc.persisted.has THEN desc.persisted.value
                                      ELSE desc.known,
                            !.subscribed = TRUE,
                            !.pending = TRUE]
    /\ UNCHANGED <<coreVars, flt, myChats, chatFileMap, chatStore, stream>>

\* the debounced body of updateDescriptors runs
UpdateDescriptors ==
    /\ desc.pending
    /\ Len(desc.handlers) < MaxInFlight
    /\ LET known1 == IF desc.known = <<>> THEN desc.dKnown ELSE desc.known
       IN desc' = IF desc.fetching # <<>>
                  THEN [desc EXCEPT !.pending = FALSE]
                  ELSE IF JsGreaterEq(known1, desc.dMax)
                  THEN [desc EXCEPT !.pending = FALSE, !.known = known1]
                  ELSE [desc EXCEPT !.pending = FALSE, !.known = known1,
                                    !.fetching = Append(desc.fetching,
                                                        [maxUpdateIdBefore |-> desc.dMax,
                                                         minCollectionVersion |-> known1])]
    /\ UNCHANGED <<coreVars, flt, myChats, chatFileMap, chatStore, stream>>

\* '/auth/file/ids/fetch' is answered with the ids of the descriptors above
\* minCollectionVersion; the handler starts and looks the ids up in the store
IdsFetchResolves ==
    /\ desc.fetching # <<>>
    /\ LET req == Head(desc.fetching)
           found == desc.cvIn > Num(req.minCollectionVersion)
       IN desc' = [desc EXCEPT
                     !.fetching = Tail(desc.fetching),
                     !.handlers = Append(desc.handlers,
                                         [maxUpdateIdBefore |-> req.maxUpdateIdBefore,
                                          stage |-> IF found THEN "get" ELSE "finish"])]
    /\ UNCHANGED <<coreVars, flt, myChats, chatFileMap, chatStore, stream>>

\* '/auth/file/descriptor/get' is answered with the descriptor d as the
\* server has it; knownDescriptorVersion is raised to d.collectionVersion
DescriptorGetResolves ==
    /\ \E i \in DOMAIN desc.handlers :
          /\ desc.handlers[i].stage = "get"
          /\ LET cv == ToStr(desc.cvIn)
             IN desc' = [desc EXCEPT !.known = IF JsLess(desc.known, cv) THEN cv ELSE desc.known,
                                     !.handlers[i].stage = "finish"]
    /\ UNCHANGED <<coreVars, flt, myChats, chatFileMap, chatStore, stream>>

\* the conflict resolver passed to descriptorsCache.setValue
SetValue(oldVal, newVal) ==
    IF ~oldVal.has THEN newVal
    ELSE IF JsGreaterEq(oldVal.value, newVal.value) THEN oldVal
    ELSE newVal

\* the handler after Promise.map: the known version is marked, reported to the
\* tracker and persisted, and updateDescriptors is called again when behind
DescriptorsHandled ==
    /\ \E i \in DOMAIN desc.handlers :
          /\ desc.handlers[i].stage = "finish"
          /\ LET h == desc.handlers[i]
                 known1 == IF h.maxUpdateIdBefore = desc.dMax THEN h.maxUpdateIdBefore
                           ELSE desc.known
             IN desc' = [desc EXCEPT
                           !.known = known1,
                           !.dKnown = known1,
                           !.persisted = SetValue(desc.persisted,
                                                  [has |-> TRUE, value |-> known1]),
                           !.pending = desc.pending \/ JsLess(known1, desc.dMax),
                           !.handlers = Without(desc.handlers, i)]
    /\ UNCHANGED <<coreVars, flt, myChats, chatFileMap, chatStore, stream>>

\* what the store and its connection do for the descriptors
DescriptorStep ==
    \/ DescriptorDigestNotify
    \/ OnFinishLoading
    \/ UpdateDescriptors
    \/ IdsFetchResolves
    \/ DescriptorGetResolves
    \/ DescriptorsHandled

DescriptorsNext ==
    \/ SrvDescriptorWrite
    \/ DescriptorStep

\* ---- FileStore.chatFileMap: the files of the chats
\* the chats (kegDbIds); one fileId is followed through its keg versions
ChatDbIds == {"c1", "c2"}
CachedFileId == "f1"
KegVersions == 1..MaxVersion

\* chatFileMap.get(kegDbId) before a map was made for the chat, and
\* fileMap.get(fileId) of a map without the file
NoMap == [made |-> FALSE, version |-> 0]
EmptyMap == [made |-> TRUE, version |-> 0]

\* cache: per chat the map and the version of the File cached under the
\* fileId (0: none); offered: the highest version passed to setChatFile
\* (history); call: the last call
ChatFileInit ==
    chatFileMap = [cache |-> [c \in ChatDbIds |-> NoMap],
                   offered |-> [c \in ChatDbIds |-> 0],
                   call |-> [op |-> None, kegDbId |-> None, version |-> 0]]

\* setChatFile(kegDbId, file), file of keg version v: the version cached for
\* file.fileId afterwards
SetChatFile(fileMap, v) ==
    LET map == IF ~fileMap.made THEN EmptyMap ELSE fileMap
        existing == map.version
    IN IF existing # 0 /\ existing < v
       THEN map
       ELSE [map EXCEPT !.version = v]

\* a caller such as loadChatFile or the chat's file handler offers a File
SetChatFileCall ==
    /\ \E c \in ChatDbIds, v \in KegVersions :
          chatFileMap' = [cache |-> [chatFileMap.cache EXCEPT
                                       ![c] = SetChatFile(chatFileMap.cache[c], v)],
                          offered |-> [chatFileMap.offered EXCEPT
                                         ![c] = IF v > @ THEN v ELSE @],
                          call |-> [op |-> "setChatFile", kegDbId |-> c, version |-> v]]
    /\ UNCHANGED <<coreVars, flt, myChats, desc, chatStore, stream>>

\* updateCachedChatKeg(chatId, keg): nothing without a map for the chat
UpdateCachedChatKeg ==
    /\ \E c \in ChatDbIds, v \in KegVersions :
          chatFileMap' =
              IF ~chatFileMap.cache[c].made
              THEN [chatFileMap EXCEPT
                      !.call = [op |-> "updateCachedChatKeg", kegDbId |-> c, version |-> v]]
              ELSE [cache |-> [chatFileMap.cache EXCEPT
                                 ![c] = SetChatFile(chatFileMap.cache[c], v)],
                    offered |-> [chatFileMap.offered EXCEPT
                                   ![c] = IF v > @ THEN v ELSE @],
                    call |-> [op |-> "updateCachedChatKeg", kegDbId |-> c, version |-> v]]
    /\ UNCHANGED <<coreVars, flt, myChats, desc, chatStore, stream>>

ChatFilesNext ==
    \/ SetChatFileCall
    \/ UpdateCachedChatKeg

\* ---- ChatStore: the list of chats
\* the ids addChat is called with; a chat's id stands for its participants
StoreChatIds == {"a", "b"}
AddChatIds == StoreChatIds \cup {"SELF"}
\* Chat objects are numbered in the order they are made; 0 is null
ChatObjects == 1..MaxChatObjects
NoChat == 0

\* chats: the Chat objects of the list; chatMap; activeChat; active: the
\* objects whose active is true; idOf: the id of each object made (None: not
\* made, or made by startChat and its metadata not loaded yet); made: number
\* of objects made; starting: the objects of startChat whose loadMetadata is
\* pending, with the id the server will give; delayed: ids whose kegDb-added
\* timer runs; recheck: ids whose hidden-chat timer of addChat runs; hidden:
\* myChats.hidden
ChatStoreInit ==
    chatStore = [chats |-> <<>>,
                 chatMap |-> [id \in AddChatIds |-> NoChat],
                 activeChat |-> NoChat,
                 active |-> {},
                 idOf |-> [o \in ChatObjects |-> None],
                 made |-> 0,
                 starting |-> [o \in ChatObjects |-> None],
                 delayed |-> {},
                 recheck |-> {},
                 hidden |-> {}]

\* addChat(id, unhide) on store st
AddChat(st, id, unhide) ==
    IF id = "SELF" \/ st.chatMap[id] # NoChat THEN st
    ELSE IF ~unhide /\ id \in st.hidden
    THEN [st EXCEPT !.recheck = st.recheck \cup {id}]
    ELSE LET c == st.made + 1
         IN [st EXCEPT !.made = c,
                       !.idOf[c] = id,
                       !.chatMap[id] = c,
                       !.chats = Append(st.chats, c),
                       !.hidden = IF unhide THEN st.hidden \ {id} ELSE st.hidden]

\* activate(id) on store st
Activate(st, id) ==
    LET chat == st.chatMap[id]
    IN IF chat = NoChat THEN st
       ELSE [st EXCEPT !.active = (IF st.activeChat # NoChat
                                   THEN st.active \ {st.activeChat} ELSE st.active)
                                  \cup {chat},
                       !.activeChat = chat]

\* this.chats.remove(chat): the first entry that is the object leaves
RemoveChat(chats, chat) ==
    IF \E i \in DOMAIN chats : chats[i] = chat
    THEN LET i == CHOOSE n \in DOMAIN chats :
                      chats[n] = chat /\ \A j \in 1..(n - 1) : chats[j] # chat
         IN SubSeq(chats, 1, i - 1) \o SubSeq(chats, i + 1, Len(chats))
    ELSE chats

\* this.chats.find(c => c.id !== chat.id): the first such entry, NoChat if none
FindOther(st, chat) ==
    IF \E i \in DOMAIN st.chats : st.idOf[st.chats[i]] # st.idOf[chat]
    THEN st.chats[CHOOSE n \in DOMAIN st.chats :
                      /\ st.idOf[st.chats[n]] # st.idOf[chat]
                      /\ \A j \in 1..(n - 1) : st.idOf[st.chats[j]] = st.idOf[chat]]
    ELSE NoChat

\* _unloadChat(chat) on store st; the call throws before changing anything
\* when the chat is active and find() returns undefined
UnloadChat(st, chat) ==
    LET other == FindOther(st, chat)
        st1 == IF chat \in st.active
               THEN IF Len(st.chats) > 1
                    THEN Activate(st, st.idOf[other])
                    ELSE [st EXCEPT !.activeChat = NoChat]
               ELSE st
    IN IF chat \in st.active /\ Len(st.chats) > 1 /\ other = NoChat THEN st
       ELSE [st1 EXCEPT !.active = st1.active \ {chat},
                        !.chatMap[st.idOf[chat]] = NoChat,
                        !.chats = RemoveChat(st1.chats, chat)]

\* n more Chat objects can be made, beside the one that each pending
\* startChat will make in its addChat
CanMakeChats(n) ==
    chatStore.made + Cardinality({o \in ChatObjects : chatStore.starting[o] # None}) + n
        <= MaxChatObjects

\* addChat(id, unhide) is called: by loadAllChats, applyMyChatsData
AddChatCall ==
    /\ CanMakeChats(1)
    /\ \E id \in AddChatIds, unhide \in BOOLEAN :
          chatStore' = AddChat(chatStore, id, unhide)
    /\ UNCHANGED <<coreVars, flt, myChats, desc, chatFileMap, stream>>

\* the tracker reports a new kegDb: addChat is put off by two seconds
OnKegDbAdded ==
    /\ \E id \in AddChatIds :
          /\ id \notin chatStore.delayed
          /\ chatStore' = [chatStore EXCEPT !.delayed = chatStore.delayed \cup {id}]
    /\ UNCHANGED <<coreVars, flt, myChats, desc, chatFileMap, stream>>

\* the timer of a kegDb-added event fires
DelayedAddChat ==
    /\ CanMakeChats(1)
    /\ \E id \in chatStore.delayed :
          chatStore' = AddChat([chatStore EXCEPT !.delayed = chatStore.delayed \ {id}],
                               id, FALSE)
    /\ UNCHANGED <<coreVars, flt, myChats, desc, chatFileMap, stream>>

\* the timer addChat set for a hidden chat fires; newMessages: the message
\* digest of the chat has something unseen
HiddenRecheck ==
    /\ CanMakeChats(1)
    /\ \E id \in chatStore.recheck, newMessages \in BOOLEAN :
          LET st == [chatStore EXCEPT !.recheck = chatStore.recheck \ {id}]
          IN chatStore' = IF id \notin st.hidden THEN AddChat(st, id, FALSE)
                          ELSE IF ~newMessages THEN st
                          ELSE AddChat(st, id, TRUE)
    /\ UNCHANGED <<coreVars, flt, myChats, desc, chatFileMap, stream>>

\* the chat is hidden on another device: my_chats arrives with it
HiddenElsewhere ==
    /\ \E id \in StoreChatIds :
          /\ id \notin chatStore.hidden
          /\ chatStore' = [chatStore EXCEPT !.hidden = chatStore.hidden \cup {id}]
    /\ UNCHANGED <<coreVars, flt, myChats, desc, chatFileMap, stream>>

\* startChat(participants): the cached chat is activated, or a new Chat is
\* made and returned whose metadata is being loaded
StartChat ==
    /\ \E id \in StoreChatIds :
          IF \E i \in DOMAIN chatStore.chats : chatStore.idOf[chatStore.chats[i]] = id
          THEN chatStore' = Activate(chatStore, id)
          ELSE /\ CanMakeChats(2)
               /\ chatStore' = [chatStore EXCEPT !.made = chatStore.made + 1,
                                                 !.starting[chatStore.made + 1] = id]
    /\ UNCHANGED <<coreVars, flt, myChats, desc, chatFileMap, stream>>

\* loadMetadata of the Chat made by startChat resolves: the Chat has its id,
\* addChat(chat.id, true) and activate(chat.id) run
StartChatLoaded ==
    /\ \E chat \in ChatObjects :
          /\ chatStore.starting[chat] # None
          /\ LET id == chatStore.starting[chat]
                 st == [chatStore EXCEPT !.starting[chat] = None, !.idOf[chat] = id]
             IN chatStore' = Activate(AddChat(st, id, TRUE), id)
    /\ UNCHANGED <<coreVars, flt, myChats, desc, chatFileMap, stream>>

\* activate(id) is called
ActivateCall ==
    /\ \E id \in StoreChatIds : chatStore' = Activate(chatStore, id)
    /\ UNCHANGED <<coreVars, flt, myChats, desc, chatFileMap, stream>>

\* _unloadChat(chat) is called with a Chat the store has handed out
UnloadChatCall ==
    /\ \E chat \in ChatObjects :
          /\ chatStore.idOf[chat] # None
          /\ chatStore' = UnloadChat(chatStore, chat)
    /\ UNCHANGED <<coreVars, flt, myChats, desc, chatFileMap, stream>>

ChatStoreNext ==
    \/ AddChatCall
    \/ OnKegDbAdded
    \/ DelayedAddChat
    \/ HiddenRecheck
    \/ HiddenElsewhere
    \/ StartChat
    \/ StartChatLoaded
    \/ ActivateCall
    \/ UnloadChatCall

\* ---- FileStreamAbstract: the position of a file stream
StreamModes == {"read", "write", "append"}
\* the lengths of the buffers written and of the chunks asked for
BufferLengths == 0..MaxChunk

\* no stream has been constructed yet.  mode; pos; done: the bytes of the
\* read() and write() calls that resolved (history); pending: the lengths of
\* the buffers whose readInternal / writeInternal has not settled; failed: a
\* call was rejected by the platform (history); last: the last call, with pos
\* before it
StreamInit ==
    stream = [mode |-> None, pos |-> 0, done |-> 0, pending |-> <<>>, failed |-> FALSE,
              last |-> [op |-> None, rejected |-> FALSE, pos |-> 0]]

\* _increasePosition(buf)
IncreasePosition(pos, length) == pos + length

\* new FileStream(path, mode)
NewStream ==
    /\ stream.mode = None
    /\ \E mode \in StreamModes : stream' = [stream EXCEPT !.mode = mode]
    /\ UNCHANGED <<coreVars, flt, myChats, desc, chatFileMap, chatStore>>

\* read(size): rejected on a stream that is not a read stream, otherwise
\* readInternal(size) is started
Read ==
    /\ stream.mode # None
    /\ Len(stream.pending) < MaxInFlight
    /\ stream.pos < MaxBytes
    /\ \E size \in BufferLengths \ {0} :
          stream' = IF stream.mode # "read"
                    THEN [stream EXCEPT !.last = [op |-> "read", rejected |-> TRUE,
                                                  pos |-> stream.pos]]
                    ELSE [stream EXCEPT !.pending = Append(stream.pending, size),
                                        !.last = [op |-> "read", rejected |-> FALSE,
                                                  pos |-> stream.pos]]
    /\ UNCHANGED <<coreVars, flt, myChats, desc, chatFileMap, chatStore>>

\* readInternal resolves with a buffer of up to `size` bytes
ReadResolves ==
    /\ stream.mode = "read"
    /\ stream.pending # <<>>
    /\ \E length \in 0..Head(stream.pending) :
          stream' = [stream EXCEPT !.pos = IncreasePosition(stream.pos, length),
                                   !.done = stream.done + length,
                                   !.pending = Tail(stream.pending)]
    /\ UNCHANGED <<coreVars, flt, myChats, desc, chatFileMap, chatStore>>

\* write(buffer): rejected on a read stream; otherwise the position is
\* increased, and writeInternal(buffer) is started unless the buffer is empty
Write ==
    /\ stream.mode # None
    /\ Len(stream.pending) < MaxInFlight
    /\ stream.pos < MaxBytes
    /\ \E length \in BufferLengths :
          stream' = IF stream.mode \notin {"write", "append"}
                    THEN [stream EXCEPT !.last = [op |-> "write", rejected |-> TRUE,
                                                  pos |-> stream.pos]]
                    ELSE [stream EXCEPT !.pos = IncreasePosition(stream.pos, length),
                                        !.pending = IF length = 0 THEN stream.pending
                                                    ELSE Append(stream.pending, length),
                                        !.last = [op |-> "write", rejected |-> FALSE,
                                                  pos |-> stream.pos]]
    /\ UNCHANGED <<coreVars, flt, myChats, desc, chatFileMap, chatStore>>

\* writeInternal resolves with the buffer it was given
WriteResolves ==
    /\ stream.mode \in {"write", "append"}
    /\ stream.pending # <<>>
    /\ LET length == Head(stream.pending)
       IN stream' = [stream EXCEPT !.pos = IncreasePosition(stream.pos, length),
                                   !.done = stream.done + length,
                                   !.pending = Tail(stream.pending)]
    /\ UNCHANGED <<coreVars, flt, myChats, desc, chatFileMap, chatStore>>

\* readInternal or writeInternal rejects: the call fails
InternalRejects ==
    /\ stream.pending # <<>>
    /\ stream' = [stream EXCEPT !.pending = Tail(stream.pending), !.failed = TRUE]
    /\ UNCHANGED <<coreVars, flt, myChats, desc, chatFileMap, chatStore>>

StreamNext ==
    \/ NewStream
    \/ Read
    \/ ReadResolves
    \/ Write
    \/ WriteResolves
    \/ InternalRejects

\* ---- the state of the other components after construction

ExtInit ==
    /\ FilterInit
    /\ MyChatsInit
    /\ DescriptorInit
    /\ ChatFileInit
    /\ ChatStoreInit
    /\ StreamInit

vars == <<coreVars, extVars>>

Init == KegInit /\ StoreInit /\ FolderInit /\ ExtInit

\* saves, their responses and hydrations in any interleaving
Next ==
    \/ SaveToServer
    \/ CreateOk
    \/ CreateFail
    \/ UpdateOk
    \/ UpdateFail
    \/ Receive
    \/ Hydrate

Spec == Init /\ [][Next]_vars

\* save() calls issued one after the other: the next call starts when the previous one settled
SaveToServerSeq == InFlight = 0 /\ SaveToServer

SeqNext ==
    \/ SaveToServerSeq
    \/ CreateOk
    \/ CreateFail
    \/ UpdateOk
    \/ UpdateFail
    \/ SetChatPosition

SpecSeqSave == Init /\ [][SeqNext]_vars

\* the file store with its server and tracker
SpecStore == Init /\ [][StoreNext]_vars

\* the file store with its server, tracker and uploads
SpecUpload == Init /\ [][UploadNext]_vars

\* the file store with its server and tracker, paused and resumed at any time
SpecPause == Init /\ [][PauseNext]_vars

\* a step of the store's runtime or of its server connection: a digest event
\* is delivered, loadAllFiles is called, a timer or debounced call fires, a
\* request is answered or a response handled
RuntimeStep ==
    \/ DigestNotify
    \/ LoadAllFiles
    \/ LoadPageServe
    \/ LoadPageResponse
    \/ OnFileDigestUpdate
    \/ UpdateFilesServe
    \/ UpdateFilesResponse

\* the runtime does not stop while it has something to do; server writes may
\* stop at any time
StoreFairness == WF_vars(RuntimeStep)

\* the file store on a server that also holds malformed file kegs
SpecMalformed == Init /\ [][MalformedNext]_vars

\* the file store where hydrating a record of an update may throw
SpecUpdateThrows == Init /\ [][UpdateThrowsNext]_vars

\* the descriptor versions of the store
SpecDescriptors == Init /\ [][DescriptorsNext]_vars

\* the same, where the store and its connection do not stop while they have
\* something to do; descriptor writes may stop at any time
SpecDescriptorsFair == SpecDescriptors /\ WF_vars(DescriptorStep)

\* the cache of chat files under calls of setChatFile
SpecChatFiles == Init /\ [][ChatFilesNext]_vars

\* the chat store under its calls and timers
SpecChatStore == Init /\ [][ChatStoreNext]_vars

\* a file stream under calls of read and write
SpecStream == Init /\ [][StreamNext]_vars

\* the file store with an application that disposes of it
SpecDispose == Init /\ [][DisposeNext]_vars

\* onFileAdded and the migration task it queues
SpecMigration == Init /\ [][MigrationNext]_vars

\* MyChats with payloads loaded from the server
SpecMyChats == Init /\ [][MyChatsNext]_vars

\* MyChats from its empty lists, nothing loaded
SpecMyChatsLocal == Init /\ [][MyChatsCalls]_vars

\* FileStoreBase with update fetches that return at most UpdateCount records
SpecUpdateCount == Init /\ [][UpdateCountNext]_vars

\* the name filter of the stores
SpecFilter == Init /\ [][FilterNext]_vars

\* the folder tree of the main store, kept in step with its keg
SpecFolders == Init /\ [][FoldersNext]_vars

\* two stores, each with its folder store
SpecVolume == Init /\ [][VolumeNext]_vars

\* the file store under these guarantees
SpecStoreFair == Init /\ [][StoreNext]_vars /\ StoreFairness

\* the store paused and resumed at any time, on a server where other clients
\* only add files
PauseCreateNext ==
    \/ SrvCreate
    \/ DigestNotify
    \/ LoadAllFiles
    \/ LoadPageServe
    \/ LoadPageResponse
    \/ OnFileDigestUpdate
    \/ UpdateFilesServe
    \/ UpdateFilesResponse
    \/ Pause
    \/ Resume

\* pause() and resume() are the application's calls and carry no fairness
SpecPauseFair == Init /\ [][PauseCreateNext]_vars /\ StoreFairness

\* ------------------------------------------------------------------ claims: Keg
\* the update requests sent, resp. settled, by a step
SentNow == BagToSet(updates') \ BagToSet(updates)
SettledNow == BagToSet(updates) \ BagToSet(updates')
\* a step that passes the waiting record to loadFromKeg
HydrateStep == inbox # <<>> /\ inbox' = <<>>

HeaderMismatch(k, rec) ==
    /\ ~IdentityMismatch(k, rec)
    /\ ~k.plaintext
    /\ rec.payload.kind = "enc"
    /\ rec.payload.key = KegKey
    /\ (rec.payload.sysKegId # rec.kegId \/ rec.payload.sysType # k.type)

\* C2: hydrating an encrypted record whose decrypted header {kegId, type} does not
\* match the record's outer id or the keg's type fails with a tamper error and
\* leaves every field of the keg as it was before the call.
C2_TamperLeavesKegUntouched ==
    [][ (HydrateStep /\ HeaderMismatch(keg, inbox[1]))
            => (loadResult' = "tamper" /\ keg' = keg) ]_vars

\* C3: an encrypted payload hydrates successfully only from a record whose outer id
\* is the id in its header into a keg whose type is the type in its header; and
\* every payload save() sends carries the id and type of the keg that sent it.
C3_SubstitutionDetected ==
    [][ /\ (HydrateStep /\ inbox[1].payload.kind = "enc" /\ loadResult' = "ok")
              => /\ inbox[1].payload.sysKegId = inbox[1].kegId
                 /\ inbox[1].payload.sysType = keg.type
                 /\ keg'.id = inbox[1].kegId
        /\ \A req \in SentNow :
              /\ req.payload.sysKegId = req.kegId
              /\ req.payload.sysType = req.type
      ]_vars

\* C3 witness: a ciphertext was hydrated successfully into the keg under id k2
C3_Witness == loadResult = "ok" /\ keg.id = "k2" /\ keg.chatPosition \in RecordPositions

\* C4: hydrating a keg that already has an id from a record with another id ends
\* with the identity-mismatch error and changes no field of the keg.
C4_IdentityMismatchRejected ==
    [][ (HydrateStep /\ keg.id # None /\ keg.id # inbox[1].kegId)
            => (loadResult' = "identityMismatch" /\ keg' = keg) ]_vars

\* C4 witness: a hydration was rejected for identity mismatch
C4_Witness == loadResult = "identityMismatch" /\ keg.id # None

\* C5: once the keg has an id, no step changes it.
C5_IdNeverChanges == [][ keg.id # None => keg'.id = keg.id ]_vars

\* ------------------------------------------------------------------ claims: FileStoreBase
\* a step in which the handler of the update response runs: the cycle completes
CycleCompletes == updating /\ ~updating'

\* C6: after any sequence of load pages, update cycles and uploads, no two Files
\* in `files` have the same fileId.
C6_FileIdsUnique ==
    \A i, j \in DOMAIN files : i # j => files[i].fileId # files[j].fileId

\* C6 witness: the store is loaded and holds an uploaded File beside a File whose
\* fileId two live kegs of the server share, and has received all three records
C6_Witness ==
    /\ loaded /\ ~updating
    /\ \E i \in DOMAIN files : files[i].fileId = UploadFileId /\ files[i].id # None
    /\ \E i \in DOMAIN files : files[i].fileId = "f1"
    /\ \E a, b \in FileKegIds :
          /\ a # b
          /\ srv[a].state = "live" /\ srv[b].state = "live"
          /\ srv[a].fileId = "f1" /\ srv[b].fileId = "f1"
    /\ seenMax = VersionAt(3)

\* C7: knownUpdateId, read as a number, is at least the collectionVersion of every
\* record the store has received so far, and no step lowers it.
C7_KnownCoversReceived ==
    [][ /\ Num(knownUpdateId') >= Num(knownUpdateId)
        /\ Num(knownUpdateId') >= seenMax' ]_vars

\* the state in which the response of the scenario's update fetch arrives: a
\* loaded store that holds nothing and has seen no update id, the digest at
\* "10", and a response of three live records with three fileIds at update
\* ids 3, 7 and 10
C8_ScenarioResponseDue ==
    /\ loaded /\ updating
    /\ files = <<>>
    /\ Num(knownUpdateId) = 0
    /\ digestMax = ToStr(10) /\ maxUpdateId = ToStr(10) /\ maxIdAtStart = ToStr(10)
    /\ served
    /\ \A n \in DOMAIN response : ~response[n].deleted /\ ~response[n].hidden
    /\ {Num(response[n].collectionVersion) : n \in DOMAIN response} = {3, 7, 10}
    /\ Cardinality({response[n].fileId : n \in DOMAIN response}) = 3

\* C8: in the scenario the update cycle leaves exactly the three Files in the
\* store and knownUpdateId = "10".
C8_DigestScenario ==
    [][ (C8_ScenarioResponseDue /\ CycleCompletes)
            => /\ Len(files') = 3
               /\ {files'[i].id : i \in DOMAIN files'} = FileKegIds
               /\ knownUpdateId' = ToStr(10) ]_vars

\* C9: in every reachable state knownUpdateId is at most maxUpdateId, both read
\* as numbers.
C9_KnownAtMostMax == Num(knownUpdateId) <= Num(maxUpdateId)

\* C10: when an update cycle completes, no File of a keg that its response
\* reported as deleted or hidden is left in `files`.
C10_DeletedHiddenAbsent ==
    [][ CycleCompletes =>
            \A n \in DOMAIN response :
                (response[n].deleted \/ response[n].hidden) =>
                    \A i \in DOMAIN files' : files'[i].id # response[n].kegId ]_vars

\* C10 witness: an update response took out the File of a keg deleted on the
\* server, which has no props and is found by its keg id, and left another File
C10_Witness ==
    /\ loaded /\ ~updating
    /\ files # <<>>
    /\ \E k \in lastRemoved : srv[k].state = "deleted" /\ \A i \in DOMAIN files : files[i].id # k

\* C11: at most one update fetch of the store is in flight, and `updating` is
\* set exactly while one is.
C11_OneFetchInFlight == fetches <= 1 /\ (updating <=> fetches = 1)

\* C11 witness: onFileDigestUpdate ran while the fetch was in flight (it took the
\* digest's new maxUpdateId, which the running cycle did not start with) and
\* the one fetch is still the only one
C11_Witness ==
    /\ fetches = 1
    /\ updating
    /\ ~handlerPending
    /\ maxUpdateId # maxIdAtStart

\* the store is idle and has caught up with the digest
CaughtUp ==
    /\ loaded /\ ~updating /\ ~handlerPending
    /\ knownUpdateId = digestMax

\* C12: when onFileDigestUpdate ran while a cycle was in flight and took a
\* maxUpdateId the cycle did not start with, the store eventually is idle with
\* knownUpdateId equal to the digest's maxUpdateId.
C12_CatchUpAfterCycle ==
    (updating /\ maxUpdateId # maxIdAtStart) ~> CaughtUp


\* the store took the digest's maxUpdateId in onFileDigestUpdate before the
\* initial load finished
NotifiedWhileLoading ==
    /\ loading /\ ~loaded /\ ~handlerPending
    /\ digestMax # <<>> /\ maxUpdateId = digestMax

\* C13: when a digest notification was handled while the initial load was
\* running, the store eventually is idle with knownUpdateId equal to the
\* digest's maxUpdateId, whether or not the digest changes again.
C13_CatchUpAfterLoad ==
    NotifiedWhileLoading ~> CaughtUp


\* the update ids the server can issue, and '' for none
UpdateIds == {<<>>} \cup {ToStr(VersionAt(i)) : i \in 1..MaxWrites}

\* C14: after resume() on a loaded store, the store catches up with the
\* maxUpdateId the digest had when the queued call of onFileDigestUpdate was
\* waiting, unless it is paused again first.
C14_ResumeCatchesUp ==
    \A d \in UpdateIds :
        (resumed /\ loaded /\ ~paused /\ digestMax = d)
            ~> (paused \/ Num(knownUpdateId) >= Num(d))


\* C15: when an update cycle completes, knownUpdateId is at least the
\* maxUpdateId the cycle started with.
C15_KnownCoversMaxAtStart ==
    [][CycleCompletes => Num(knownUpdateId') >= Num(maxIdAtStart)]_vars


\* a step in which an update cycle starts
CycleStarts == ~updating /\ updating'

\* C16: the load state only moves from unloaded to loading to loaded, at most
\* one call of loadAllFiles is inside the page loop, and no update cycle
\* starts before loaded is true.
C16_LoadStateMachine ==
    [][/\ \/ <<loading, loaded>>' = <<loading, loaded>>
          \/ ~loading /\ ~loaded /\ loading' /\ ~loaded'
          \/ loading /\ ~loaded /\ ~loading' /\ loaded'
       /\ loops' = (IF loading' THEN 1 ELSE 0)
       /\ CycleStarts => loaded]_vars

\* the load went through loading to loaded, and a cycle started afterwards
C16_Witness ==
    /\ loaded /\ ~loading /\ loops = 0
    /\ updating /\ Len(files) > 0


\* a step in which the initial load finishes
LoadFinishes == ~loaded /\ loaded'

\* r was the only live record with its fileId when the load began, and its keg
\* is still live
WellFormedAndLive(r) ==
    /\ srv[r.kegId].state = "live"
    /\ \A o \in liveAtStart : o.fileId = r.fileId => o = r

\* the number of Files in list whose keg is k
Copies(list, k) == Cardinality({i \in 1..Len(list) : list[i].id = k})

PageHandled == pagePending /\ served /\ ~served'

\* the record hydrates and has a fileId
Hydrates(rec) ==
    /\ ~rec.deleted /\ ~rec.hidden
    /\ rec.health = "ok" /\ rec.fileId # None

\* record i of the page in flight is valid: it hydrates and its fileId is
\* neither in files nor that of an earlier valid record of the page
ValidAt(i) ==
    /\ Hydrates(response[i])
    /\ GetById(files, response[i].fileId) = NoFile
    /\ \A j \in 1..(i - 1) :
          ~(Hydrates(response[j]) /\ response[j].fileId = response[i].fileId)

\* C18: when a page of the initial load is handled, every valid record of the
\* page has its File in files afterwards, a record that is skipped leaves
\* files as it was for its keg, and no request that changes the server's kegs
\* is sent.
C18_SkippedRecordsHarmless ==
    [][PageHandled =>
         /\ \A i \in 1..Len(response) :
               IF ValidAt(i)
               THEN GetByKegId(files', response[i].kegId) # NoFile
               ELSE GetByKegId(files', response[i].kegId)
                       = GetByKegId(files, response[i].kegId)
         /\ removals' = removals]_vars


\* C19: after dispose() no update cycle starts for a maxUpdateId that the
\* digest reported only after the call.
C19_NoCycleAfterDispose ==
    [][(disposed # <<>> /\ CycleStarts) => maxIdAtStart' = disposed[1]]_vars


\* C20: when the owner's migration of a legacy File ended with a successful
\* save after exactly two failed saves, the File has the latest format and is
\* not migrating.
C20_MigrationScenario ==
    (mig.owner /\ mig.outcome = "saved" /\ mig.saveFails = 2)
        => (mig.format = LatestFormat /\ ~mig.migrating)

\* the scenario has run: two failed saves, then the save that succeeded
C20_Witness ==
    /\ mig.owner /\ mig.phase = "done" /\ mig.outcome = "saved"
    /\ mig.saveFails = 2 /\ mig.fails = 2

\* ------------------------------------------------------------------ claims: migration
\* C21: when the owner's migration gave up after the retries were used up
\* (every attempt failed with an error other than the conflict), the File has
\* format 0 and is not migrating, its task has left the migration queue, and
\* the queue can start the next waiting task.
C21_GiveUpRevertsToLegacy ==
    (mig.owner /\ mig.outcome = "gaveUp") =>
        /\ mig.format = 0
        /\ ~mig.migrating
        /\ "m" \notin TasksOf(migrationQueue)
        /\ migrationQueue.waiting # <<>> => CanRunTask(migrationQueue, MigrationParallelism)

\* the owner's task gave up after the last retry, and another task waits
C21_Witness ==
    /\ mig.owner /\ mig.outcome = "gaveUp" /\ mig.fails = OwnerMaxRetries + 1
    /\ mig.lastError = "other"
    /\ migrationQueue.waiting = <<"d">>

\* C22: once an attempt of the owner's migration was answered with the
\* conflict (malformedRequest), the migration is over as a success: the File is
\* not migrating, has the latest format, its task has left the queue, and no
\* later step touches the File.
C22_ConflictIsSuccess ==
    /\ [](  (mig.owner /\ mig.lastError = "malformedRequest") =>
              /\ mig.phase = "done"
              /\ mig.outcome = "conflict"
              /\ ~mig.migrating
              /\ mig.format = LatestFormat
              /\ "m" \notin TasksOf(migrationQueue)  )
    /\ [][mig.outcome = "conflict" => mig' = mig]_vars

\* the save of the owner's second attempt was answered with the conflict
C22_Witness ==
    /\ mig.owner /\ mig.outcome = "conflict"
    /\ mig.fails = 1 /\ mig.saveFails = 2

\* C24: at most one migration task runs at a time (the File's own task is
\* running whenever one of its requests is in flight), and each queue can
\* start its next task exactly when it has a waiting task and none running,
\* whatever the other queue holds; a step of one queue leaves the other alone.
C24_QueuesSeparate ==
    /\ [](  /\ Cardinality(migrationQueue.running) <= 1
            /\ mig.phase \in {"descriptor", "saving"} => migrationQueue.running = {"m"}
            /\ (ENABLED RunUploadTask)
                   <=> (uploadQueue.waiting # <<>> /\ uploadQueue.running = {})
            /\ (ENABLED RunMigrationTask)
                   <=> (migrationQueue.waiting # <<>> /\ migrationQueue.running = {})  )
    /\ [][migrationQueue' = migrationQueue \/ uploadQueue' = uploadQueue]_vars

\* a migration runs and another waits, while an upload runs and another waits
C24_Witness ==
    /\ migrationQueue.running = {"m"} /\ migrationQueue.waiting = <<"d">>
    /\ mig.phase = "saving"
    /\ uploadQueue.running = {"u1"} /\ uploadQueue.waiting = <<"u2">>

\* C25: onFileAdded for a legacy File of another user: when the keg shows no
\* descriptor, format, descriptorKey and the migration queue stay as they
\* were; when it shows one, the File gets the latest format and its re-save is
\* added to the queue.  Without a visible descriptor the File stays legacy.
C25_PassiveFollow ==
    /\ [](  (mig.legacy /\ ~mig.owner /\ ~mig.descriptor) =>
              (mig.format = 0 /\ mig.descriptorKey = None /\ mig.phase = "idle")  )
    /\ [][(mig.phase = "none" /\ mig'.phase # "none" /\ mig'.legacy /\ ~mig'.owner) =>
            IF mig'.descriptor
            THEN /\ mig'.format = LatestFormat
                 /\ migrationQueue'.waiting = Append(migrationQueue.waiting, "m")
            ELSE /\ mig'.format = 0
                 /\ mig'.descriptorKey = None
                 /\ migrationQueue' = migrationQueue]_vars

\* onFileAdded was called for such a File without a descriptor while a task
\* was waiting in the queue
C25_Witness ==
    /\ mig.legacy /\ ~mig.owner /\ ~mig.descriptor /\ mig.phase = "idle"
    /\ "d" \in TasksOf(migrationQueue)

\* C23: whenever a page of the initial load or an incremental update puts a
\* File into the store, onFileAdded is called with it in that step (and so
\* queues the migration task of a legacy File the local user owns).
C23_MigrationEvaluatedOnFirstSight ==
    [][AddedFileIds(files, files') \subseteq hooked']_vars

\* C26: createFolder(name, parent) throws exactly when the target has a child
\* folder whose name equals `name` but for case, and a call that throws
\* leaves the folder tree and the folder id map as they were
C26_CreateFolderCollision ==
    [][call'.op = "createFolder" =>
          IF call'.thrown # None
          THEN /\ call'.thrown = "error_folderAlreadyExists"
               /\ folders' = folders
               /\ fstore' = fstore
               /\ \E c \in FolderObjs :
                     /\ folders[c].parent # None
                     /\ ToLowerCase(folders[c].name) = ToLowerCase(call'.name)
          ELSE \E o \in FolderObjs :
                  /\ folders[o] = NoFolder
                  /\ folders'[o].name = call'.name
                  /\ \A c \in ChildrenOf(folders, folders'[o].parent) :
                        ToLowerCase(folders[c].name) # ToLowerCase(call'.name)]_vars

\* createFolder threw for a name that differs in case from the child it
\* collides with, and the tree has no folder of that very name
C26_Witness ==
    /\ call.op = "createFolder"
    /\ call.thrown = "error_folderAlreadyExists"
    /\ \E c \in FolderObjs :
          folders[c].parent # None /\ ToLowerCase(folders[c].name) = ToLowerCase(call.name)
    /\ \A c \in FolderObjs : folders[c].parent # None => folders[c].name # call.name

\* the step is a sync() of store s: keg.onUpdated, or the catch of save()
SyncStepOf(s) == call'.op \in {"sync", "saveFailed"} /\ call'.store = s

\* after the step every File of store s whose folderId is no folder id of
\* the tree of the keg is in the files of the root and of no other folder
UnresolvedFilesInRoot(s) ==
    \A f \in FolderFileIds :
       (InStore(fstate'[f], s) /\ fstate'[f].folderId \notin IdsOf(localKeg'[s]))
           => fstate'[f].lists = {RootOf(s)}

\* after the step getById resolves the folder ids of the tree of the keg and
\* no other
GetByIdResolvesLatestTree(s) ==
    \A d \in FolderIds :
       (GetFolderById(s, fstore'[s].folderResolveMap, d) # None) <=> (d \in IdsOf(localKeg'[s]))

\* C27: after sync() every File of the store whose folderId does not resolve
\* to a folder of the latest tree is attached to the root and to no other
\* folder, and getById resolves exactly the folder ids of the latest tree
C27_SyncResolvesLatestTree ==
    [][\A s \in Stores :
          SyncStepOf(s) => UnresolvedFilesInRoot(s) /\ GetByIdResolvesLatestTree(s)]_vars

\* after sync() the Files with an unresolved folderId are in the root alone
SyncFilesPart == [][\A s \in Stores : SyncStepOf(s) => UnresolvedFilesInRoot(s)]_vars

\* C28: whatever sync() calls, folderId changes, additions and removals of
\* files happened, each File is in the files of at most one folder, the root
\* included
C28_FileInOneFolder ==
    \A f \in FolderFileIds : Cardinality(fstate[f].lists) <= 1

\* a File went from one folder to another after a sync() had registered a
\* second reaction on its folderId, and it is in the files of the new
\* folder
C28_Witness ==
    \E f \in FolderFileIds :
       /\ fstate[f].life = "in"
       /\ fstate[f].leaked
       /\ fstate[f].folder \in FolderObjs
       /\ fstate[f].lists = {fstate[f].folder}
       /\ fstate[f].folderId = FolderIdOf(fstate[f].folder)

TreeOf(s) == IF fstore[s].made THEN TreeFolders(folders, s) ELSE {}

\* C30: two distinct stores have no folder object in common, the root
\* included, and a File of one store is in the files of no folder of the
\* other store's tree
C30_StoreOwnsItsTree ==
    \A s, t \in Stores :
       (s # t /\ fstore[s].made /\ fstore[t].made)
           => /\ TreeOf(s) \cap TreeOf(t) = {}
              /\ \A f \in FolderFileIds :
                    InStore(fstate[f], s) => fstate[f].lists \cap TreeOf(t) = {}

\* the name contains the query as a substring when case is ignored
ContainsIgnoreCase(name, query) ==
    \E off \in 0..Len(name) :
       /\ off + Len(query) <= Len(name)
       /\ \A i \in DOMAIN query : ToLowerCase(name)[off + i] = ToLowerCase(query)[i]

\* C31: filterByName("") followed by clearFilter() leaves every File of the
\* store with show = true and every File's selected flag as it was before
\* the two calls
C31_EmptyFilterThenClear ==
    [][(/\ flt.call.op = "filterByName"
        /\ flt.call.query = <<>>
        /\ flt'.call.op = "clearFilter"
        /\ flt'.call.store = flt.call.store)
          => \A f \in AllFiles(flt.call.store) :
                /\ flt'.files[f].show
                /\ flt'.files[f].selected = flt.call.before[f].selected]_vars

\* clearFilter() came right after filterByName("") of the main store, and
\* before the two calls a File was hidden and another File was selected
C31_Witness ==
    /\ flt.call.op = "clearFilter"
    /\ flt.call.chained
    /\ flt.call.store = "main"
    /\ \E f \in FilterFileIds : ~flt.call.before[f].show
    /\ \E f \in FilterFileIds : flt.call.before[f].selected /\ flt.files[f].selected

\* C32: after filterByName(query) a File shows exactly when its name contains
\* the query as a substring, case ignored; a File that does not match is not
\* selected and a File that matches has the selected flag it had
C32_FilterMatchesSubstring ==
    [][flt'.call.op = "filterByName"
          => \A f \in AllFiles(flt'.call.store) :
                /\ flt'.files[f].show <=> ContainsIgnoreCase(flt'.files[f].name, flt'.call.query)
                /\ ~flt'.files[f].show => ~flt'.files[f].selected
                /\ flt'.files[f].show => flt'.files[f].selected = flt.files[f].selected]_vars

\* filterByName ran with a query whose case differs from a name it matches:
\* that File shows and is still selected, and a File that was selected and
\* does not match is hidden and deselected
C32_Witness ==
    /\ flt.call.op = "filterByName"
    /\ \E f \in AllFiles(flt.call.store) :
          /\ flt.files[f].show /\ flt.files[f].selected
          /\ \E i \in DOMAIN flt.call.query : flt.call.query[i] = "P"
    /\ \E f \in AllFiles(flt.call.store) :
          ~flt.files[f].show /\ flt.call.before[f].selected /\ ~flt.files[f].selected

\* no chat id is in both lists and neither list holds an id twice
ListsDisjointNoDuplicate(m) ==
    /\ \A c \in ChatIds : ~(Has(m.favorites, c) /\ Has(m.hiddenChats, c))
    /\ \A i, j \in DOMAIN m.favorites : i # j => m.favorites[i] # m.favorites[j]
    /\ \A i, j \in DOMAIN m.hiddenChats : i # j => m.hiddenChats[i] # m.hiddenChats[j]

\* C33: whatever the two lists held, after addFavorite(chatId) the id is in
\* favorites and not in hiddenChats, and after addHidden(chatId) it is in
\* hiddenChats and not in favorites; and the four calls keep the lists
\* disjoint and free of duplicates
C33_FavoriteAndHiddenExclusive ==
    [][/\ myChats'.call.op = "addFavorite"
          => /\ Has(myChats'.favorites, myChats'.call.chatId)
             /\ ~Has(myChats'.hiddenChats, myChats'.call.chatId)
       /\ myChats'.call.op = "addHidden"
          => /\ Has(myChats'.hiddenChats, myChats'.call.chatId)
             /\ ~Has(myChats'.favorites, myChats'.call.chatId)
       /\ (myChats'.call.op # None /\ ListsDisjointNoDuplicate(myChats))
          => ListsDisjointNoDuplicate(myChats')]_vars

\* the lists stay disjoint and free of duplicates
ListsExclusive == ListsDisjointNoDuplicate(myChats)

\* the store is idle: loaded, no cycle in flight, no handler pending
StoreIdle == loaded /\ ~updating /\ ~handlerPending /\ fetches = 0

\* the change of keg k the server holds has been applied: the keg has a File
\* when it is live and none when it is deleted or hidden
Applied(k) ==
    /\ srv[k].state = "live" => \E i \in DOMAIN files : files[i].id = k
    /\ srv[k].state \in {"deleted", "hidden"} => \A i \in DOMAIN files : files[i].id # k

\* C34: the watermark skips no changed record: whenever the store is idle
\* with knownUpdateId = K, every record with collectionVersion at most K has
\* been applied to files, also when more records changed than one fetch
\* returns
C34_WatermarkSkipsNothing ==
    StoreIdle =>
        \A k \in FileKegIds :
           (srv[k].state # "absent" /\ srv[k].cv <= Num(knownUpdateId)) => Applied(k)

\* C35: whenever no update fetch is in flight and no response is being
\* processed, updating is false, also after the processing of a response
\* stopped at a record that could not be handled
C35_UpdatingReleased == fetches = 0 => ~updating

\* C36: when the owner's migration task has ended with the latest format and
\* migrating false, a save of the file keg succeeded during the task or the
\* conflict answer (another client migrated the file first) was received; and
\* over the retries of the task createDescriptor succeeded at most once
C36_MigratedOnceOrByOther ==
    /\ (mig.owner /\ mig.legacy /\ mig.phase = "done" /\ mig.format = LatestFormat
            /\ ~mig.migrating)
          => mig.outcome \in {"saved", "conflict"}
    /\ mig.owner => mig.created <= 1

\* C37: over any runs of updateDescriptors and descriptor-digest
\* notifications knownDescriptorVersion never decreases, the persisted
\* 'knownDescriptorVersion' record never decreases, at most one descriptor-id
\* fetch is in flight, and once the digest stops advancing
\* knownDescriptorVersion eventually equals the digest's maxUpdateId
C37_DescriptorVersionAdvances ==
    /\ [][/\ Num(desc'.known) >= Num(desc.known)
          /\ Num(desc'.persisted.value) >= Num(desc.persisted.value)]_vars
    /\ [](Len(desc.fetching) <= 1)
    /\ <>[](desc.known = desc.dMax)

\* C38: after any calls of setChatFile for one chat and fileId the File cached
\* in chatFileMap is the offered one with the highest keg version: a cached
\* File is never replaced by one of a lower version, and a File of a higher
\* version always replaces the cached one
C38_CachedIsHighestVersion ==
    \A c \in ChatDbIds :
        chatFileMap.offered[c] # 0 => chatFileMap.cache[c].version = chatFileMap.offered[c]

\* C39: after any interleaving of addChat, startChat, activate, _unloadChat and
\* delayed kegDb-added callbacks: no two entries of chats have the same id,
\* chatMap[id] is set exactly for the chats in chats, 'SELF' is never added, at
\* most one chat is active, and activeChat is null or that one active member
\* of chats
C39_ChatListConsistent ==
    LET chats == chatStore.chats
        InChats(o) == \E i \in DOMAIN chats : chats[i] = o
    IN /\ \A i, j \in DOMAIN chats :
              chatStore.idOf[chats[i]] = chatStore.idOf[chats[j]] => i = j
       /\ \A id \in AddChatIds :
              chatStore.chatMap[id] # NoChat <=>
                  \E i \in DOMAIN chats : chatStore.idOf[chats[i]] = id
       /\ \A id \in AddChatIds :
              chatStore.chatMap[id] # NoChat =>
                  InChats(chatStore.chatMap[id]) /\ chatStore.idOf[chatStore.chatMap[id]] = id
       /\ \A i \in DOMAIN chats : chatStore.idOf[chats[i]] # "SELF"
       /\ Cardinality(chatStore.active) <= 1
       /\ chatStore.activeChat # NoChat =>
              InChats(chatStore.activeChat) /\ chatStore.active = {chatStore.activeChat}

\* C40: after any sequence of successful read() calls on a read stream or
\* write() calls on a write or append stream, pos is the number of bytes read
\* or written so far; a read() on a stream that is not a read stream and a
\* write() on a read stream are rejected and leave pos unchanged
C40_PosCountsBytes ==
    /\ []((stream.pending = <<>> /\ ~stream.failed) => stream.pos = stream.done)
    /\ []((stream.last.op = "read" /\ stream.mode # "read") => stream.last.rejected)
    /\ []((stream.last.op = "write" /\ stream.mode = "read") => stream.last.rejected)
    /\ [][(stream'.last # stream.last /\ stream'.last.rejected) => stream'.pos = stream.pos]_vars

====
